---- MODULE Spec2Model ----
(***************************************************************************)
(* Token-gated usage accounting (Module/core/auth_service.py, the request  *)
(* handlers of app_gate.py, Module/core/admin_service.py) and the response *)
(* cache (Module/cache_sqlite.py) as state machines.                       *)
(*                                                                         *)
(*   Spec       the AuthService object driven by one caller at a time:     *)
(*              every call runs to completion before the next starts.      *)
(*   SpecCache  the two tables of WhiskCacheSQLite under its writes.       *)
(*   SpecCrash  the service process stopped and started again at any       *)
(*              point, a _save_tokens in progress included.                *)
(***************************************************************************)
EXTENDS Integers, Sequences, FiniteSets, TLC

\* ------------------------------------------------------------------ bounds
\* the clock runs over 0..MaxTime
MaxTime == 2
\* Spec stops recording once the tokens in memory hold this many records
MaxRecords == 4
\* SpecCache stops inserting new keys once the two tables hold this many rows
MaxRows == 2
\* SpecQuery draws usage_count and max_usage_count of its token up to this
MaxCount == 2
\* SpecQuota draws max_usage_count of its unused token up to this
MaxQuota == 4
\* SpecStore stops saving once the tokens file has been written this often
MaxSaves == 2
\* SpecAdmin draws the count of a batch of tokens up to this
MaxBatch == 2
\* SpecAdmin stops creating batches and serving requests once the tokens
\* file has been written this often
MaxWrites == 3

\* ------------------------------------------------------------- value sets
\* image fingerprints (sha256 digests) a request can carry
Hashes == {"H1", "H2"}
\* style keys of a theme
Styles == {"A", "B", "C", "D"}
\* ids of the tokens in the store, and one id that is in no store
\* (AdminService.generate_tokens numbers them: prefix + int(now) + i)
T1 == 1
T2 == 2
TX == 9
RequestIds == {T1, T2, TX}
\* what a caller can pass as output_images: paths, and an object that is
\* neither a str nor has a filename
NotSerializable == "<object>"
OutputLists == {<<"out1.png", NotSerializable>>}

\* can_use_more_styles: len(self.used_styles) < 3
StyleLimit == 3

\* --------------------------------------------------------------- helpers
Contains(seq, x) == \E i \in 1..Len(seq) : seq[i] = x
SeqToSet(seq) == {seq[i] : i \in 1..Len(seq)}
Keys(m) == DOMAIN m
EmptyMap == [k \in {} |-> 0]
\* dict.get(key, default)
Get(d, key, default) == IF key \in DOMAIN d THEN d[key] ELSE default
\* m with m[k] = v (dict item assignment)
Put(m, k, v) == [x \in (DOMAIN m) \cup {k} |-> IF x = k THEN v ELSE m[x]]

\* ----------------------------------------------------------- AccessToken
\* the quota left out of the usage test
is_usage_valid_window_only(token, t) ==
    t < token.usage_valid_until

\* @property is_usage_valid
is_usage_valid(token, t) ==
    t < token.usage_valid_until /\ token.usage_count < token.max_usage_count


\* access tied to the usage window and the quota
is_access_valid_usage(token, t) ==
    t < token.access_valid_until /\ t < token.usage_valid_until
        /\ token.usage_count < token.max_usage_count

\* @property is_access_valid
is_access_valid(token, t) == t < token.access_valid_until

\* @property can_use_more_styles
can_use_more_styles(token) == Len(token.used_styles) < StyleLimit

has_used_image(token, image_hash) == Contains(token.used_image_hashes, image_hash)

\* the fingerprint appended without the membership test
add_image_hash_always(token, image_hash) ==
    [token EXCEPT !.used_image_hashes = Append(@, image_hash)]

add_image_hash(token, image_hash) ==
    IF ~Contains(token.used_image_hashes, image_hash)
    THEN [token EXCEPT !.used_image_hashes = Append(@, image_hash)]
    ELSE token

add_used_style(token, style) ==
    IF ~Contains(token.used_styles, style) /\ can_use_more_styles(token)
    THEN [token EXCEPT !.used_styles = Append(@, style)]
    ELSE token

\* usage_count assigned instead of incremented
add_generation_record_assign(token, record) ==
    [token EXCEPT !.generation_records = Append(@, record),
                  !.usage_count = 1]

add_generation_record(token, record) ==
    [token EXCEPT !.generation_records = Append(@, record),
                  !.usage_count = @ + 1]

\* ------------------------------------------------------------ token store
\* The store is one JSON file.  content.ok is FALSE when the text of the
\* file is not a JSON document (empty or cut short); content.data maps
\* token ids to JSON objects.
JsonFile(data) == [ok |-> TRUE, data |-> data]
CorruptFile == [ok |-> FALSE, data |-> EmptyMap]

\* created_at left out of the written object
token_to_json_without_created_at(token) ==
    [theme |-> token.theme,
     usage_count |-> token.usage_count,
     max_usage_count |-> token.max_usage_count,
     usage_valid_until |-> token.usage_valid_until,
     access_valid_until |-> token.access_valid_until,
     used_image_hashes |-> token.used_image_hashes,
     used_styles |-> token.used_styles,
     generation_records |-> token.generation_records]

\* the JSON object _save_tokens writes for a token
token_to_json(token) ==
    [theme |-> token.theme,
     usage_count |-> token.usage_count,
     max_usage_count |-> token.max_usage_count,
     created_at |-> token.created_at,
     usage_valid_until |-> token.usage_valid_until,
     access_valid_until |-> token.access_valid_until,
     used_image_hashes |-> token.used_image_hashes,
     used_styles |-> token.used_styles,
     generation_records |-> token.generation_records]

\* the AccessToken _load_tokens builds from a JSON object at time t
\* (86400 s and 604800 s of the source are 1 and 2 clock units here)
token_from_json(token_id, token_data, t) ==
    [token_id |-> token_id,
     theme |-> Get(token_data, "theme", "ice"),
     usage_count |-> Get(token_data, "usage_count", 0),
     max_usage_count |-> Get(token_data, "max_usage_count", 3),
     created_at |-> Get(token_data, "created_at", t),
     usage_valid_until |-> Get(token_data, "usage_valid_until", t + 1),
     access_valid_until |-> Get(token_data, "access_valid_until", t + 2),
     used_image_hashes |-> Get(token_data, "used_image_hashes", <<>>),
     used_styles |-> Get(token_data, "used_styles", <<>>),
     generation_records |-> Get(token_data, "generation_records", <<>>)]

\* AuthService._load_tokens: self.tokens after __init__ on this file
\* (a JSONDecodeError is caught and leaves self.tokens empty)
_load_tokens(content, t) ==
    IF content.ok
    THEN [id \in DOMAIN content.data |-> token_from_json(id, content.data[id], t)]
    ELSE EmptyMap

\* AuthService._save_tokens: the document written for self.tokens
_save_tokens(toks) == JsonFile([id \in DOMAIN toks |-> token_to_json(toks[id])])

\* ------------------------------------------------------------ AuthService
UNKNOWN_TOKEN == "invalid access token"
ACCESS_EXPIRED == "token expired"
QUOTA_EXHAUSTED == "max usage count reached"
USAGE_EXPIRED == "usage period expired"
IMAGE_MISMATCH == "token already used for another image"
None == "None"

\* the expiry test made on the usage window instead of the access window
validate_token_usage(toks, t, token_id) ==
    IF token_id \notin DOMAIN toks
    THEN [ok |-> FALSE, err |-> UNKNOWN_TOKEN, token |-> None]
    ELSE IF ~is_usage_valid(toks[token_id], t)
    THEN [ok |-> FALSE, err |-> ACCESS_EXPIRED, token |-> None]
    ELSE [ok |-> TRUE, err |-> None, token |-> toks[token_id]]

\* validate_token -> (valid, error_msg, token)
validate_token(toks, t, token_id) ==
    IF token_id \notin DOMAIN toks
    THEN [ok |-> FALSE, err |-> UNKNOWN_TOKEN, token |-> None]
    ELSE IF ~is_access_valid(toks[token_id], t)
    THEN [ok |-> FALSE, err |-> ACCESS_EXPIRED, token |-> None]
    ELSE [ok |-> TRUE, err |-> None, token |-> toks[token_id]]


\* the usage window reported before the quota
can_generate_image_window_first(toks, t, token_id) ==
    LET v == validate_token(toks, t, token_id) IN
    IF ~v.ok
    THEN [ok |-> FALSE, err |-> v.err, token |-> None]
    ELSE IF ~is_usage_valid(v.token, t)
    THEN IF t >= v.token.usage_valid_until
         THEN [ok |-> FALSE, err |-> USAGE_EXPIRED, token |-> v.token]
         ELSE [ok |-> FALSE, err |-> QUOTA_EXHAUSTED, token |-> v.token]
    ELSE [ok |-> TRUE, err |-> None, token |-> v.token]

\* the quota looked at before validate_token
can_generate_image_quota_first(toks, t, token_id) ==
    IF token_id \in DOMAIN toks
       /\ toks[token_id].usage_count >= toks[token_id].max_usage_count
    THEN [ok |-> FALSE, err |-> QUOTA_EXHAUSTED, token |-> toks[token_id]]
    ELSE LET v == validate_token(toks, t, token_id) IN
         IF ~v.ok
         THEN [ok |-> FALSE, err |-> v.err, token |-> None]
         ELSE IF ~is_usage_valid(v.token, t)
         THEN [ok |-> FALSE, err |-> USAGE_EXPIRED, token |-> v.token]
         ELSE [ok |-> TRUE, err |-> None, token |-> v.token]

\* can_generate_image -> (can_generate, error_msg, token)
can_generate_image(toks, t, token_id) ==
    LET v == validate_token(toks, t, token_id) IN
    IF ~v.ok
    THEN [ok |-> FALSE, err |-> v.err, token |-> None]
    ELSE IF ~is_usage_valid(v.token, t)
    THEN IF v.token.usage_count >= v.token.max_usage_count
         THEN [ok |-> FALSE, err |-> QUOTA_EXHAUSTED, token |-> v.token]
         ELSE [ok |-> FALSE, err |-> USAGE_EXPIRED, token |-> v.token]
    ELSE [ok |-> TRUE, err |-> None, token |-> v.token]

\* the comparison with the used images left out
validate_image_hash_any(toks, t, token_id, image_hash) ==
    LET v == validate_token(toks, t, token_id) IN
    IF ~v.ok THEN [ok |-> FALSE, err |-> v.err] ELSE [ok |-> TRUE, err |-> None]

\* a mismatch reported with no reason
validate_image_hash_no_reason(toks, t, token_id, image_hash) ==
    LET v == validate_token(toks, t, token_id) IN
    IF ~v.ok
    THEN [ok |-> FALSE, err |-> v.err]
    ELSE IF Len(v.token.used_image_hashes) > 0
    THEN IF Contains(v.token.used_image_hashes, image_hash)
         THEN [ok |-> TRUE, err |-> None]
         ELSE [ok |-> FALSE, err |-> None]
    ELSE [ok |-> TRUE, err |-> None]

\* validate_image_hash -> (is_valid, error_msg)
validate_image_hash(toks, t, token_id, image_hash) ==
    LET v == validate_token(toks, t, token_id) IN
    IF ~v.ok
    THEN [ok |-> FALSE, err |-> v.err]
    ELSE IF Len(v.token.used_image_hashes) > 0
    THEN IF Contains(v.token.used_image_hashes, image_hash)
         THEN [ok |-> TRUE, err |-> None]
         ELSE [ok |-> FALSE, err |-> IMAGE_MISMATCH]
    ELSE [ok |-> TRUE, err |-> None]

\* record_image_usage keeps of output_images the str entries
SafeOutputImages(output_images) ==
    SelectSeq(output_images, LAMBDA img : img # NotSerializable)

GenerationRecord(t, image_hash, style, output_images) ==
    [timestamp |-> t, datetime |-> t, image_hash |-> image_hash,
     style |-> style, output_files |-> SafeOutputImages(output_images)]

\* record_image_usage: the token after the three add_* calls
RecordedToken(token, t, image_hash, style, output_images) ==
    add_generation_record(
        add_used_style(add_image_hash(token, image_hash), style),
        GenerationRecord(t, image_hash, style, output_images))

\* record_image_usage -> bool
record_image_usage_ret(toks, t, token_id) == validate_token(toks, t, token_id).ok

\* the three add_* calls made on any known token, valid or not
record_image_usage_tokens_unchecked(toks, t, token_id, image_hash, style, output_images) ==
    IF token_id \notin DOMAIN toks
    THEN toks
    ELSE [toks EXCEPT ![token_id] =
             RecordedToken(@, t, image_hash, style, output_images)]

\* record_image_usage: self.tokens after the call
record_image_usage_tokens(toks, t, token_id, image_hash, style, output_images) ==
    IF ~validate_token(toks, t, token_id).ok
    THEN toks
    ELSE [toks EXCEPT ![token_id] =
             RecordedToken(@, t, image_hash, style, output_images)]

\* the values of get_available_styles: True (already used), None
\* (available, not used yet), False (not available)
StyleUsed == "True"
StyleUnavailable == "False"

\* the case of a token without a committed image left out
get_available_styles_no_image_case(toks, t, token_id, all_styles) ==
    LET v == validate_token(toks, t, token_id) IN
    IF ~v.ok
    THEN [style \in all_styles |-> StyleUnavailable]
    ELSE [style \in all_styles |->
             IF Contains(v.token.used_styles, style) THEN StyleUsed
             ELSE IF can_use_more_styles(v.token) THEN None
             ELSE StyleUnavailable]

\* get_available_styles(token_id, all_styles) -> {style: True | None | False}
get_available_styles(toks, t, token_id, all_styles) ==
    LET v == validate_token(toks, t, token_id) IN
    IF ~v.ok
    THEN [style \in all_styles |-> StyleUnavailable]
    ELSE IF Len(v.token.used_image_hashes) = 0
    THEN [style \in all_styles |-> None]
    ELSE [style \in all_styles |->
             IF Contains(v.token.used_styles, style) THEN StyleUsed
             ELSE IF can_use_more_styles(v.token) THEN None
             ELSE StyleUnavailable]

\* ------------------------------------------------------ image fingerprint
\* the strings a caller passes as image_data: an upload path and two base64
\* texts
ImageData == {"up1.png", "aGk=", "eW8="}
\* what a file can hold
Contents == {"hi", "yo"}
NoFiles == [path \in ImageData |-> <<>>]

\* hashlib.sha256(data).hexdigest(): one digest per byte string
sha256(data) == <<"sha256", data>>

\* base64.b64decode(text): <<bytes>>, or <<>> where it raises binascii.Error
\* ("up1.png" keeps six characters of the alphabet: incorrect padding)
b64decode(text) ==
    IF text = "aGk=" THEN <<"hi">>
    ELSE IF text = "eW8=" THEN <<"yo">>
    ELSE <<>>

\* calculate_image_hash(image_data) for a str argument, files being what
\* os.path.exists and open see
calculate_image_hash(files, image_data) ==
    IF files[image_data] # <<>>
    THEN sha256(files[image_data][1])
    ELSE IF b64decode(image_data) # <<>>
    THEN sha256(b64decode(image_data)[1])
    ELSE sha256(image_data)

\* ------------------------------------------------------------------ state
VARIABLES
    tokens,           \* auth_service.tokens: token_id -> AccessToken
    last_token_load,  \* auth_service.last_token_load, -1 while the attribute is not set
    file,             \* the content of TOKENS_FILE
    file_mtime,       \* os.path.getmtime(TOKENS_FILE)
    now,              \* time.time()
    caption_cache,    \* table caption_cache: hash_key -> row
    story_cache,      \* table story_cache: cache_key -> row
    up,               \* the service process is running
    saving,           \* the document a _save_tokens in progress is writing (<<>>: none)
    save_from,        \* the content of the file when the last save began
    save_to,          \* the document the last save was writing
    interrupted,      \* the process was stopped while that save was in progress
    th,               \* request threads: where each is in its handler, and its locals
    old,              \* AuthService objects replaced by a reload that a thread still runs on
    admin,            \* the admin tool's process: its position and what it has read
    committed,        \* the records for which record_image_usage has returned True
    ret,              \* the last record_image_usage call under storage faults: what it
                      \* returned and what became of its save
    res,              \* the last query on the AuthService and what it returned
    disk              \* the files at the paths a request can name: <<>> where
                      \* there is none, <<content>> where there is one

authVars == <<tokens, last_token_load, file, file_mtime>>
cacheVars == <<caption_cache, story_cache>>
procVars == <<up, saving, save_from, save_to, interrupted>>
concVars == <<th, old, admin, committed>>
callVars == <<ret, res, disk>>
vars == <<authVars, now, cacheVars, procVars, concVars, callVars>>
\* what the calls on the AuthService leave alone
NotAuth == <<cacheVars, procVars, concVars, callVars>>

NoRecords == <<>>
\* a token as AdminService.save_tokens writes it
NewTokenJson(max_usage_count, created, usage_until, access_until) ==
    [theme |-> "ice", usage_count |-> 0, max_usage_count |-> max_usage_count,
     created_at |-> created, usage_valid_until |-> usage_until,
     access_valid_until |-> access_until, used_image_hashes |-> <<>>,
     used_styles |-> <<>>, generation_records |-> NoRecords]

\* The store the service starts on: T1 is unused; T2 has generated twice
\* from image H1, in styles A and B, in an earlier run of the service.
InitialStore ==
    LET r(s) == [timestamp |-> 0, datetime |-> 0, image_hash |-> "H1",
                 style |-> s, output_files |-> <<"out1.png">>]
    IN (T1 :> NewTokenJson(1, 0, 1, 2)) @@
       (T2 :> [NewTokenJson(4, 0, 2, 2) EXCEPT
                  !.usage_count = 2,
                  !.used_image_hashes = <<"H1">>,
                  !.used_styles = <<"A", "B">>,
                  !.generation_records = <<r("A"), r("B")>>])

\* before any record_image_usage call
NoCall == [token_id |-> 0, value |-> FALSE, io |-> "none"]

\* before any query
NoQuery == [op |-> "none", token_id |-> 0, out |-> None]

\* the request threads of the web server, and the slots for replaced services
Threads == {"r1", "r2"}
Slots == {1, 2}
\* a thread outside any handler
Idle == [pc |-> "idle", token_id |-> 0, image_hash |-> "", style |-> "",
         self |-> 0, test |-> FALSE, count |-> 0]

RECURSIVE TotalRecords(_)
TotalRecords(toks) ==
    IF DOMAIN toks = {} THEN 0
    ELSE LET id == CHOOSE x \in DOMAIN toks : TRUE
         IN Len(toks[id].generation_records) +
            TotalRecords([x \in (DOMAIN toks) \ {id} |-> toks[x]])

\* auth_service = AuthService(TOKENS_FILE) at module import
Init ==
    /\ file = JsonFile(InitialStore)
    /\ file_mtime = 0
    /\ now = 0
    /\ tokens = _load_tokens(file, now)
    /\ last_token_load = -1
    /\ caption_cache = EmptyMap
    /\ story_cache = EmptyMap
    /\ up = TRUE
    /\ saving = <<>>
    /\ save_from = <<>>
    /\ save_to = <<>>
    /\ interrupted = FALSE
    /\ th = [t \in Threads |-> Idle]
    /\ old = [i \in Slots |-> EmptyMap]
    /\ admin = [pc |-> "idle", existing_tokens |-> EmptyMap]
    /\ committed = {}
    /\ ret = NoCall
    /\ res = NoQuery
    /\ disk = NoFiles

\* ---------------------------------------------------------------- actions
\* AuthService.record_image_usage(token_id, image_hash, style, output_images)
record_image_usage(token_id, image_hash, style, output_images) ==
    /\ TotalRecords(tokens) < MaxRecords
    /\ tokens' = record_image_usage_tokens(tokens, now, token_id, image_hash,
                                           style, output_images)
    /\ IF record_image_usage_ret(tokens, now, token_id)
       THEN /\ file' = _save_tokens(tokens')
            /\ file_mtime' = file_mtime + 1
       ELSE UNCHANGED <<file, file_mtime>>
    /\ UNCHANGED <<last_token_load, now, NotAuth>>

\* process_image_request(image, style_key, token_id), run without any other
\* request in between; upstream_ok is whether image_service.process_image
\* reports success
process_image_request(image_hash, style_key, token_id, upstream_ok) ==
    LET can == can_generate_image(tokens, now, token_id)
        img == validate_image_hash(tokens, now, token_id, image_hash)
        msg == IF ~can.ok THEN <<"cannot generate", can.err>>
               ELSE IF ~img.ok THEN <<img.err>>
               ELSE IF ~upstream_ok THEN <<"generation failed">>
               ELSE <<"success">>
    IN /\ TotalRecords(tokens) < MaxRecords
       /\ IF msg = <<"success">>
          THEN /\ tokens' = record_image_usage_tokens(tokens, now, token_id,
                                image_hash, style_key, <<"out1.png">>)
               /\ IF record_image_usage_ret(tokens, now, token_id)
                  THEN /\ file' = _save_tokens(tokens')
                       /\ file_mtime' = file_mtime + 1
                  ELSE UNCHANGED <<file, file_mtime>>
          ELSE UNCHANGED <<tokens, file, file_mtime>>
       /\ UNCHANGED <<last_token_load, now, NotAuth>>

\* the clock advances
Tick ==
    /\ now < MaxTime
    /\ now' = now + 1
    /\ UNCHANGED <<authVars, cacheVars, procVars, concVars, callVars>>

Next ==
    \/ \E id \in RequestIds, h \in Hashes, s \in Styles, o \in OutputLists :
          record_image_usage(id, h, s, o)
    \/ \E id \in RequestIds, h \in Hashes, s \in Styles, ok \in BOOLEAN :
          process_image_request(h, s, id, ok)
    \/ Tick

Spec == Init /\ [][Next]_vars

\* ------------------------------------------------------- WhiskCacheSQLite
\* base64 payloads of uploaded images, and the texts stored for them
Images == {"img1", "img2"}
CaptionTexts == {"v1", "v2"}
PromptTexts == {"p1", "p2"}
\* strings that get concatenated are sequences of characters
Captions == {<<"a">>, <<"a", "_", "b">>}
StyleKeys == {<<"b">>, <<"c">>}
AdditionalTexts == {<<"d">>, <<"c", "_", "d">>}

\* hashlib.md5(text.encode()).hexdigest(): one digest per text
md5(text) == <<"md5", text>>

\* f"{caption}_{style_key}_{additional_text}"
StoryKeyText(caption, style_key, additional_text) ==
    caption \o <<"_">> \o style_key \o <<"_">> \o additional_text

\* a row inserted at time t (created_at DEFAULT CURRENT_TIMESTAMP)
CaptionRow(caption, t) == [caption |-> caption, created_at |-> t]
PromptRow(prompt, t) == [prompt |-> prompt, created_at |-> t]

\* INSERT OR REPLACE INTO table (key, value)
InsertOrReplace(table, key, row) ==
    [k \in (DOMAIN table) \cup {key} |-> IF k = key THEN row ELSE table[k]]

\* get_caption(image_base64)
get_caption(table, image_base64) ==
    IF md5(image_base64) \in DOMAIN table
    THEN table[md5(image_base64)].caption ELSE None

\* get_story_prompt(caption, style_key, additional_text)
get_story_prompt(table, caption, style_key, additional_text) ==
    LET cache_key == md5(StoryKeyText(caption, style_key, additional_text)) IN
    IF cache_key \in DOMAIN table THEN table[cache_key].prompt ELSE None

CacheRows == Cardinality(DOMAIN caption_cache) + Cardinality(DOMAIN story_cache)

\* save_caption(image_base64, caption)
save_caption(image_base64, caption) ==
    LET hash_key == md5(image_base64) IN
    /\ hash_key \in DOMAIN caption_cache \/ CacheRows < MaxRows
    /\ caption_cache' = InsertOrReplace(caption_cache, hash_key, CaptionRow(caption, now))
    /\ UNCHANGED <<story_cache, authVars, now, procVars, concVars, callVars>>

\* save_story_prompt(caption, style_key, additional_text, prompt)
save_story_prompt(caption, style_key, additional_text, prompt) ==
    LET cache_key == md5(StoryKeyText(caption, style_key, additional_text)) IN
    /\ cache_key \in DOMAIN story_cache \/ CacheRows < MaxRows
    /\ story_cache' = InsertOrReplace(story_cache, cache_key, PromptRow(prompt, now))
    /\ UNCHANGED <<caption_cache, authVars, now, procVars, concVars, callVars>>

\* a lookup that removes the row it has read
get_caption_call_consuming(image_base64) ==
    /\ res' = [op |-> "get_caption", token_id |-> 0,
               out |-> get_caption(caption_cache, image_base64)]
    /\ caption_cache' = [k \in DOMAIN caption_cache \ {md5(image_base64)} |->
                            caption_cache[k]]
    /\ UNCHANGED <<story_cache, authVars, now, procVars, concVars, ret, disk>>

\* cache.get_caption(image_base64)
get_caption_call(image_base64) ==
    /\ res' = [op |-> "get_caption", token_id |-> 0,
               out |-> get_caption(caption_cache, image_base64)]
    /\ UNCHANGED <<cacheVars, authVars, now, procVars, concVars, ret, disk>>

\* cache.get_story_prompt(caption, style_key, additional_text)
get_story_prompt_call(caption, style_key, additional_text) ==
    /\ res' = [op |-> "get_story_prompt", token_id |-> 0,
               out |-> get_story_prompt(story_cache, caption, style_key,
                                        additional_text)]
    /\ UNCHANGED <<cacheVars, authVars, now, procVars, concVars, ret, disk>>

\* clear_cache(older_than_days): <<>> is None, <<d>> an age of d clock units
OlderThanDays == {<<>>, <<0>>, <<1>>}
\* the hours the host's local time is ahead of UTC, in clock units
UtcOffsets == {-1, 0, 1}
\* time.strftime('%Y-%m-%d %H:%M:%S', time.localtime(t)) on a host whose
\* local time is utc_offset ahead of UTC; timestamps of this format compare
\* as the times they denote
localtime(t, utc_offset) == t + utc_offset

\* DELETE FROM table WHERE created_at < cutoff_timestamp
DeleteOlder(table, cutoff_timestamp) ==
    [k \in {x \in DOMAIN table : ~(table[x].created_at < cutoff_timestamp)} |->
        table[k]]

\* clear_cache(older_than_days) on a host utc_offset ahead of UTC
clear_cache(older_than_days, utc_offset) ==
    /\ IF older_than_days # <<>>
       THEN LET cutoff_time == now - older_than_days[1]
                cutoff_timestamp == localtime(cutoff_time, utc_offset)
            IN /\ caption_cache' = DeleteOlder(caption_cache, cutoff_timestamp)
               /\ story_cache' = DeleteOlder(story_cache, cutoff_timestamp)
       ELSE /\ caption_cache' = EmptyMap
            /\ story_cache' = EmptyMap
    /\ UNCHANGED <<authVars, now, procVars, concVars, callVars>>

NextCache ==
    \/ \E i \in Images, c \in CaptionTexts : save_caption(i, c)
    \/ \E c \in Captions, s \in StyleKeys, a \in AdditionalTexts, p \in PromptTexts :
          save_story_prompt(c, s, a, p)
    \/ \E d \in OlderThanDays, o \in UtcOffsets : clear_cache(d, o)
    \/ Tick

SpecCache == Init /\ [][NextCache]_vars

\* writes and lookups, at one time
NextLookup ==
    \/ \E i \in Images, c \in CaptionTexts : save_caption(i, c)
    \/ \E c \in Captions, s \in StyleKeys, a \in AdditionalTexts, p \in PromptTexts :
          save_story_prompt(c, s, a, p)
    \/ \E i \in Images : get_caption_call(i)
    \/ \E c \in Captions, s \in StyleKeys, a \in AdditionalTexts :
          get_story_prompt_call(c, s, a)

SpecLookup == Init /\ [][NextLookup]_vars

\* --------------------------------------------- the process stops and starts
\* record_image_usage up to the open(self.tokens_file_path, 'w') of
\* _save_tokens: the token is updated, the document is built, and the file
\* is opened for writing, which empties it
record_image_usage_open(token_id, image_hash, style, output_images) ==
    /\ up /\ saving = <<>>
    /\ TotalRecords(tokens) < MaxRecords
    /\ record_image_usage_ret(tokens, now, token_id)
    /\ tokens' = record_image_usage_tokens(tokens, now, token_id, image_hash,
                                           style, output_images)
    /\ saving' = <<_save_tokens(tokens')>>
    /\ save_from' = <<file>>
    /\ save_to' = saving'
    /\ interrupted' = FALSE
    /\ file' = CorruptFile
    /\ file_mtime' = file_mtime + 1
    /\ UNCHANGED <<last_token_load, now, up, cacheVars, concVars, callVars>>

\* json.dump(data, f) and the close of the file
_save_tokens_dump ==
    /\ up /\ saving # <<>>
    /\ file' = saving[1]
    /\ file_mtime' = file_mtime + 1
    /\ saving' = <<>>
    /\ UNCHANGED <<tokens, last_token_load, now, up, save_from, save_to,
                   interrupted, cacheVars, concVars, callVars>>

\* the process is killed: its memory is gone, the file stays as it is
Interrupt ==
    /\ up
    /\ up' = FALSE
    /\ tokens' = EmptyMap
    /\ saving' = <<>>
    /\ interrupted' = (saving # <<>>)
    /\ UNCHANGED <<last_token_load, file, file_mtime, now, save_from, save_to,
                   cacheVars, concVars, callVars>>

\* the service starts again: auth_service = AuthService(TOKENS_FILE)
Restart ==
    /\ ~up
    /\ up' = TRUE
    /\ tokens' = _load_tokens(file, now)
    /\ last_token_load' = -1
    /\ UNCHANGED <<file, file_mtime, now, saving, save_from, save_to,
                   interrupted, cacheVars, concVars, callVars>>

NextCrash ==
    \/ \E id \in RequestIds, h \in Hashes, s \in Styles, o \in OutputLists :
          record_image_usage_open(id, h, s, o)
    \/ _save_tokens_dump
    \/ Interrupt
    \/ Restart

SpecCrash == Init /\ [][NextCrash]_vars

\* ------------------------------------------- requests in concurrent threads
\* theme_config.get("default_style", "")
default_style == "D"
\* the style labels a request carries: a style key, or "" for none chosen
StyleLabels == Styles \cup {""}
\* the files image_service.process_image returns to a thread
OutputImages(t) == IF t = "r1" THEN <<"r1.png">> ELSE <<"r2.png">>
\* the admin tool's new token: token_id = f"{prefix}{int(now) + i}", i = 0
AdminTokenId == 3 + now

NotConc == <<now, cacheVars, procVars, callVars>>

\* the AuthService object a thread's record_image_usage runs on
Obj(t) == IF th[t].self = 0 THEN tokens ELSE old[th[t].self]

\* a thread is inside record_image_usage on the service auth_service names
OnCurrent(t) == th[t].pc \in {"rec2", "rec3", "rec4"} /\ th[t].self = 0

FreeSlot == CHOOSE i \in Slots : \A t \in Threads : th[t].self # i

\* reload_tokens(): the condition under which auth_service is replaced
NeedsReload == last_token_load = -1 \/ file_mtime > last_token_load

\* the threads after reload_tokens(): those inside record_image_usage keep
\* running on the service they were called on
Kept ==
    [t \in Threads |->
        IF NeedsReload /\ OnCurrent(t) THEN [th[t] EXCEPT !.self = FreeSlot]
        ELSE th[t]]

\* reload_tokens(): auth_service = AuthService(TOKENS_FILE) when the file is
\* newer than the last load
reload_tokens ==
    /\ tokens' = IF NeedsReload THEN _load_tokens(file, now) ELSE tokens
    /\ last_token_load' = IF NeedsReload THEN file_mtime ELSE last_token_load
    /\ old' = IF NeedsReload /\ (\E t \in Threads : OnCurrent(t))
              THEN [old EXCEPT ![FreeSlot] = tokens] ELSE old

\* handle_upload_image(image, style_label, token_id) up to the call of
\* image_service.process_image inside process_image_request
handle_upload_image(t, image_hash, style_label, token_id) ==
    /\ th[t].pc = "idle"
    /\ reload_tokens
    /\ LET tok == validate_token(tokens', now, token_id)
           img == validate_image_hash(tokens', now, token_id, image_hash)
           style_key == IF style_label = "" THEN default_style ELSE style_label
           at_limit == /\ style_label # ""
                       /\ ~Contains(tok.token.used_styles, style_key)
                       /\ ~can_use_more_styles(tok.token)
           can == can_generate_image(tokens', now, token_id)
       IN th' = [Kept EXCEPT ![t] =
                   IF tok.ok /\ img.ok /\ ~at_limit /\ can.ok
                   THEN [Idle EXCEPT !.pc = "process", !.token_id = token_id,
                                     !.image_hash = image_hash,
                                     !.style = style_key]
                   ELSE [Idle EXCEPT !.pc = "history"]]
    /\ UNCHANGED <<file, file_mtime, admin, committed, NotConc>>

\* image_service.process_image returns; success is process_data["success"]
process_image(t, success) ==
    /\ th[t].pc = "process"
    /\ th' = [th EXCEPT ![t] = IF success THEN [@ EXCEPT !.pc = "rec1"]
                               ELSE [Idle EXCEPT !.pc = "history"]]
    /\ UNCHANGED <<authVars, old, admin, committed, NotConc>>

\* record_image_usage: validate_token, and the test of add_image_hash
record_image_usage_validate(t) ==
    /\ th[t].pc = "rec1"
    /\ LET v == validate_token(tokens, now, th[t].token_id)
       IN th' = [th EXCEPT ![t] =
                   IF v.ok
                   THEN [@ EXCEPT !.pc = "rec2", !.self = 0,
                                  !.test = ~has_used_image(v.token, th[t].image_hash)]
                   ELSE [Idle EXCEPT !.pc = "history"]]
    /\ UNCHANGED <<authVars, old, admin, committed, NotConc>>

\* the token of a thread's record_image_usage, updated by f, is stored in
\* the service the call runs on
StoreToken(t, token) ==
    LET toks == [Obj(t) EXCEPT ![th[t].token_id] = token]
    IN IF th[t].self = 0
       THEN tokens' = toks /\ old' = old
       ELSE old' = [old EXCEPT ![th[t].self] = toks] /\ tokens' = tokens

\* record_image_usage: the append of add_image_hash, the test of add_used_style
record_image_usage_image(t) ==
    /\ th[t].pc = "rec2"
    /\ LET token == Obj(t)[th[t].token_id]
           added == IF th[t].test
                    THEN [token EXCEPT !.used_image_hashes =
                             Append(@, th[t].image_hash)]
                    ELSE token
       IN /\ StoreToken(t, added)
          /\ th' = [th EXCEPT ![t].pc = "rec3",
                              ![t].test = /\ ~Contains(added.used_styles, th[t].style)
                                          /\ can_use_more_styles(added)]
    /\ UNCHANGED <<last_token_load, file, file_mtime, admin, committed, NotConc>>

\* record_image_usage: the append of add_used_style, the append of
\* add_generation_record, and the read of usage_count in usage_count += 1
record_image_usage_style(t) ==
    /\ th[t].pc = "rec3"
    /\ LET token == Obj(t)[th[t].token_id]
           styled == IF th[t].test
                     THEN [token EXCEPT !.used_styles = Append(@, th[t].style)]
                     ELSE token
           record == GenerationRecord(now, th[t].image_hash, th[t].style,
                                      OutputImages(t))
       IN /\ StoreToken(t, [styled EXCEPT !.generation_records = Append(@, record)])
          /\ th' = [th EXCEPT ![t].pc = "rec4", ![t].test = FALSE,
                              ![t].count = token.usage_count]
    /\ UNCHANGED <<last_token_load, file, file_mtime, admin, committed, NotConc>>

\* record_image_usage: the write of usage_count += 1, _save_tokens, return True
record_image_usage_save(t) ==
    /\ th[t].pc = "rec4"
    /\ LET token == Obj(t)[th[t].token_id]
           toks == [Obj(t) EXCEPT ![th[t].token_id] =
                       [token EXCEPT !.usage_count = th[t].count + 1]]
           record == GenerationRecord(now, th[t].image_hash, th[t].style,
                                      OutputImages(t))
           shared == \E u \in Threads \ {t} : th[u].self = th[t].self
       IN /\ file' = _save_tokens(toks)
          /\ file_mtime' = file_mtime + 1
          /\ IF th[t].self = 0
             THEN tokens' = toks /\ old' = old
             ELSE /\ tokens' = tokens
                  /\ old' = [old EXCEPT ![th[t].self] =
                                IF shared THEN toks ELSE EmptyMap]
          /\ committed' = committed \cup
                 {[token_id |-> th[t].token_id, record |-> record]}
    /\ th' = [th EXCEPT ![t] = [Idle EXCEPT !.pc = "history"]]
    /\ UNCHANGED <<last_token_load, admin, NotConc>>

\* get_token_history(token_id), called after handle_upload_image returns
get_token_history(t) ==
    /\ th[t].pc = "history"
    /\ reload_tokens
    /\ th' = [Kept EXCEPT ![t] = [Idle EXCEPT !.pc = "done"]]
    /\ UNCHANGED <<file, file_mtime, admin, committed, NotConc>>

\* AdminService.save_tokens: existing_tokens = json.load(f)
save_tokens_read ==
    /\ admin.pc = "idle"
    /\ file.ok
    /\ admin' = [pc |-> "read", existing_tokens |-> file.data]
    /\ UNCHANGED <<authVars, th, old, committed, NotConc>>

\* AdminService.save_tokens: existing_tokens[token_id] = {...}; json.dump
save_tokens_write ==
    /\ admin.pc = "read"
    /\ file' = JsonFile(Put(admin.existing_tokens, AdminTokenId,
                            NewTokenJson(StyleLimit, now, now + 1, now + 2)))
    /\ file_mtime' = file_mtime + 1
    /\ admin' = [pc |-> "done", existing_tokens |-> EmptyMap]
    /\ UNCHANGED <<tokens, last_token_load, th, old, committed, NotConc>>

NextConc ==
    \/ \E t \in Threads, h \in Hashes, s \in StyleLabels, id \in RequestIds :
          handle_upload_image(t, h, s, id)
    \/ \E t \in Threads, ok \in BOOLEAN : process_image(t, ok)
    \/ \E t \in Threads : record_image_usage_validate(t)
    \/ \E t \in Threads : record_image_usage_image(t)
    \/ \E t \in Threads : record_image_usage_style(t)
    \/ \E t \in Threads : record_image_usage_save(t)
    \/ \E t \in Threads : get_token_history(t)
    \/ save_tokens_read
    \/ save_tokens_write

SpecConc == Init /\ [][NextConc]_vars

\* --------------------------------------------- requests one after another
\* the status messages of handle_upload_image and process_image_request
INVALID_PASS == "invalid pass"
STYLE_LIMIT_REACHED == "style limit reached"
CANNOT_CREATE == "cannot create"
GENERATION_FAILED == "generation failed"
CREATED == "created"

\* the usage recorded whether or not the upstream generation succeeded
handle_image_with_state_counting_failures(image_hash, style_label, token_id, success) ==
    LET need1 == NeedsReload
        toks1 == IF need1 THEN _load_tokens(file, now) ELSE tokens
        load1 == IF need1 THEN file_mtime ELSE last_token_load
        tok == validate_token(toks1, now, token_id)
        img == validate_image_hash(toks1, now, token_id, image_hash)
        style_key == IF style_label = "" THEN default_style ELSE style_label
        at_limit == /\ style_label # ""
                    /\ ~Contains(tok.token.used_styles, style_key)
                    /\ ~can_use_more_styles(tok.token)
        can == can_generate_image(toks1, now, token_id)
        recorded == /\ tok.ok /\ img.ok /\ ~at_limit /\ can.ok
                    /\ record_image_usage_ret(toks1, now, token_id)
        toks2 == IF recorded
                 THEN record_image_usage_tokens(toks1, now, token_id,
                          image_hash, style_key, <<"out1.png">>)
                 ELSE toks1
        status_msg ==
            IF ~tok.ok THEN [msg |-> INVALID_PASS, err |-> None]
            ELSE IF ~img.ok THEN [msg |-> img.err, err |-> None]
            ELSE IF at_limit THEN [msg |-> STYLE_LIMIT_REACHED, err |-> None]
            ELSE IF ~can.ok THEN [msg |-> CANNOT_CREATE, err |-> can.err]
            ELSE IF ~success THEN [msg |-> GENERATION_FAILED, err |-> None]
            ELSE [msg |-> CREATED, err |-> None]
        upstream == IF tok.ok /\ img.ok /\ ~at_limit /\ can.ok
                    THEN <<"process_image">> ELSE <<>>
    IN /\ TotalRecords(tokens) < MaxRecords
       /\ res' = [op |-> "handle_image_with_state", token_id |-> token_id,
                  out |-> status_msg, upstream |-> upstream]
       /\ file' = IF recorded THEN _save_tokens(toks2) ELSE file
       /\ file_mtime' = IF recorded THEN file_mtime + 1 ELSE file_mtime
       /\ IF file_mtime' > load1
          THEN /\ tokens' = _load_tokens(file', now)
               /\ last_token_load' = file_mtime'
          ELSE /\ tokens' = toks2
               /\ last_token_load' = load1
       /\ UNCHANGED <<now, cacheVars, procVars, concVars, ret, disk>>

\* handle_image_with_state(image, style_label, state) run from start to end
\* with no other request in between: handle_upload_image (reload_tokens, the
\* checks, process_image_request with its record_image_usage) and then
\* get_token_history (reload_tokens); success is process_data["success"];
\* res.upstream lists the calls made to image_service.process_image (the
\* caption, story prompt and rendering requests are all made inside it)
handle_image_with_state(image_hash, style_label, token_id, success) ==
    LET need1 == NeedsReload
        toks1 == IF need1 THEN _load_tokens(file, now) ELSE tokens
        load1 == IF need1 THEN file_mtime ELSE last_token_load
        tok == validate_token(toks1, now, token_id)
        img == validate_image_hash(toks1, now, token_id, image_hash)
        style_key == IF style_label = "" THEN default_style ELSE style_label
        at_limit == /\ style_label # ""
                    /\ ~Contains(tok.token.used_styles, style_key)
                    /\ ~can_use_more_styles(tok.token)
        can == can_generate_image(toks1, now, token_id)
        recorded == /\ tok.ok /\ img.ok /\ ~at_limit /\ can.ok /\ success
                    /\ record_image_usage_ret(toks1, now, token_id)
        toks2 == IF recorded
                 THEN record_image_usage_tokens(toks1, now, token_id,
                          image_hash, style_key, <<"out1.png">>)
                 ELSE toks1
        status_msg ==
            IF ~tok.ok THEN [msg |-> INVALID_PASS, err |-> None]
            ELSE IF ~img.ok THEN [msg |-> img.err, err |-> None]
            ELSE IF at_limit THEN [msg |-> STYLE_LIMIT_REACHED, err |-> None]
            ELSE IF ~can.ok THEN [msg |-> CANNOT_CREATE, err |-> can.err]
            ELSE IF ~success THEN [msg |-> GENERATION_FAILED, err |-> None]
            ELSE [msg |-> CREATED, err |-> None]
        upstream == IF tok.ok /\ img.ok /\ ~at_limit /\ can.ok
                    THEN <<"process_image">> ELSE <<>>
    IN /\ TotalRecords(tokens) < MaxRecords
       /\ res' = [op |-> "handle_image_with_state", token_id |-> token_id,
                  out |-> status_msg, upstream |-> upstream]
       /\ file' = IF recorded THEN _save_tokens(toks2) ELSE file
       /\ file_mtime' = IF recorded THEN file_mtime + 1 ELSE file_mtime
       /\ IF file_mtime' > load1
          THEN /\ tokens' = _load_tokens(file', now)
               /\ last_token_load' = file_mtime'
          ELSE /\ tokens' = toks2
               /\ last_token_load' = load1
       /\ UNCHANGED <<now, cacheVars, procVars, concVars, ret, disk>>

NextGate ==
    \/ \E h \in Hashes, s \in StyleLabels, id \in RequestIds, ok \in BOOLEAN :
          handle_image_with_state(h, s, id, ok)
    \/ Tick

SpecGate == Init /\ [][NextGate]_vars

\* ------------------------------------- requests on one token not used yet
\* auth_service = AuthService(TOKENS_FILE) on a file with one token T1 as
\* the admin tool writes it, with both expiry times after every time reached
InitQuota ==
    /\ \E n \in 1..MaxQuota :
          file = JsonFile(T1 :> NewTokenJson(n, 0, MaxTime + 1, MaxTime + 1))
    /\ file_mtime = 0
    /\ now = 0
    /\ tokens = _load_tokens(file, now)
    /\ last_token_load = -1
    /\ caption_cache = EmptyMap
    /\ story_cache = EmptyMap
    /\ up = TRUE
    /\ saving = <<>>
    /\ save_from = <<>>
    /\ save_to = <<>>
    /\ interrupted = FALSE
    /\ th = [t \in Threads |-> Idle]
    /\ old = [i \in Slots |-> EmptyMap]
    /\ admin = [pc |-> "idle", existing_tokens |-> EmptyMap]
    /\ committed = {}
    /\ ret = NoCall
    /\ res = NoQuery
    /\ disk = NoFiles

\* auth_service.can_generate_image(token_id) between requests
can_generate_image_query(token_id) ==
    /\ res' = [op |-> "can_generate_image", token_id |-> token_id,
               out |-> can_generate_image(tokens, now, token_id)]
    /\ UNCHANGED <<authVars, now, cacheVars, procVars, concVars, ret, disk>>

NextQuota ==
    \/ \E h \in Hashes, s \in StyleLabels, ok \in BOOLEAN :
          handle_image_with_state(h, s, T1, ok)
    \/ can_generate_image_query(T1)

SpecQuota == InitQuota /\ [][NextQuota]_vars

\* ------------------------------------------------- storage faults on save
\* what becomes of the save in _save_tokens: it completes, open(..., 'w')
\* raises IOError (the file stays as it was), or json.dump raises IOError
\* after the file was opened (the file holds no complete document)
IoOutcomes == {"ok", "open_failed", "dump_failed"}
FailedIo == {"open_failed", "dump_failed"}

\* AuthService.record_image_usage with the outcome io of its _save_tokens;
\* _save_tokens catches the IOError and record_image_usage returns True
record_image_usage_io(token_id, image_hash, style, output_images, io) ==
    /\ TotalRecords(tokens) < MaxRecords
    /\ tokens' = record_image_usage_tokens(tokens, now, token_id, image_hash,
                                           style, output_images)
    /\ IF record_image_usage_ret(tokens, now, token_id)
       THEN /\ file' = IF io = "ok" THEN _save_tokens(tokens')
                       ELSE IF io = "open_failed" THEN file
                       ELSE CorruptFile
            /\ file_mtime' = IF io = "open_failed" THEN file_mtime
                             ELSE file_mtime + 1
            /\ ret' = [token_id |-> token_id, value |-> TRUE, io |-> io]
       ELSE /\ UNCHANGED <<file, file_mtime>>
            /\ ret' = [token_id |-> token_id, value |-> FALSE, io |-> "none"]
    /\ UNCHANGED <<last_token_load, now, cacheVars, procVars, concVars, res, disk>>

\* reload_tokens() at the start of a page load or of a request
reload_tokens_call ==
    /\ NeedsReload
    /\ reload_tokens
    /\ UNCHANGED <<file, file_mtime, th, admin, committed, NotConc>>

NextFault ==
    \/ \E id \in RequestIds, h \in Hashes, s \in Styles, o \in OutputLists,
          io \in IoOutcomes : record_image_usage_io(id, h, s, o, io)
    \/ reload_tokens_call

SpecFault == Init /\ [][NextFault]_vars

\* ------------------------------------------------ queries on any one token
\* the used_styles a token file can hold for the token of SpecQuery
StylePrefixes == {<<>>, <<"A">>, <<"A", "B">>, <<"A", "B", "C">>}

\* the token records a tokens file can hold
QueryTokens ==
    [theme : {"ice"}, usage_count : 0..MaxCount, max_usage_count : 1..MaxCount,
     created_at : {0}, usage_valid_until : 0..MaxTime,
     access_valid_until : 0..MaxTime,
     used_image_hashes : {<<>>, <<"H1">>}, used_styles : StylePrefixes,
     generation_records : {NoRecords}]

\* auth_service = AuthService(TOKENS_FILE) on a file with one token T1
InitQuery ==
    /\ \E token_data \in QueryTokens : file = JsonFile(T1 :> token_data)
    /\ file_mtime = 0
    /\ now = 0
    /\ tokens = _load_tokens(file, now)
    /\ last_token_load = -1
    /\ caption_cache = EmptyMap
    /\ story_cache = EmptyMap
    /\ up = TRUE
    /\ saving = <<>>
    /\ save_from = <<>>
    /\ save_to = <<>>
    /\ interrupted = FALSE
    /\ th = [t \in Threads |-> Idle]
    /\ old = [i \in Slots |-> EmptyMap]
    /\ admin = [pc |-> "idle", existing_tokens |-> EmptyMap]
    /\ committed = {}
    /\ ret = NoCall
    /\ res = NoQuery
    /\ disk = NoFiles

NotQuery == <<authVars, now, cacheVars, procVars, concVars, ret, disk>>

\* auth_service.validate_token(token_id)
validate_token_call(token_id) ==
    /\ res' = [op |-> "validate_token", token_id |-> token_id,
               out |-> validate_token(tokens, now, token_id)]
    /\ UNCHANGED NotQuery

\* auth_service.can_generate_image(token_id)
can_generate_image_call(token_id) ==
    /\ res' = [op |-> "can_generate_image", token_id |-> token_id,
               out |-> can_generate_image(tokens, now, token_id)]
    /\ UNCHANGED NotQuery

\* auth_service.get_available_styles(token_id, all_styles)
get_available_styles_call(token_id, all_styles) ==
    /\ res' = [op |-> "get_available_styles", token_id |-> token_id,
               out |-> get_available_styles(tokens, now, token_id, all_styles)]
    /\ UNCHANGED NotQuery

\* a check that commits the token to the first image it is asked about
validate_image_hash_call_committing(token_id, image_hash) ==
    /\ res' = [op |-> "validate_image_hash", token_id |-> token_id,
               out |-> validate_image_hash(tokens, now, token_id, image_hash)]
    /\ tokens' = IF validate_token(tokens, now, token_id).ok
                 THEN [tokens EXCEPT ![token_id] = add_image_hash(@, image_hash)]
                 ELSE tokens
    /\ UNCHANGED <<last_token_load, file, file_mtime, now, cacheVars,
                   procVars, concVars, ret, disk>>

\* auth_service.validate_image_hash(token_id, image_hash)
validate_image_hash_call(token_id, image_hash) ==
    /\ res' = [op |-> "validate_image_hash", token_id |-> token_id,
               out |-> validate_image_hash(tokens, now, token_id, image_hash)]
    /\ UNCHANGED NotQuery

\* AuthService.get_token_data: {} for a token validate_token rejects, else
\* the dict built from the token's fields and properties
get_token_data(toks, t, token_id) ==
    LET v == validate_token(toks, t, token_id) IN
    IF ~v.ok
    THEN [valid |-> FALSE, data |-> <<>>]
    ELSE [valid |-> TRUE,
          data |-> <<[theme |-> v.token.theme,
                      usage_count |-> v.token.usage_count,
                      max_usage_count |-> v.token.max_usage_count,
                      is_usage_valid |-> is_usage_valid(v.token, t),
                      is_access_valid |-> is_access_valid(v.token, t),
                      used_styles |-> v.token.used_styles,
                      can_use_more_styles |-> can_use_more_styles(v.token),
                      generation_records |-> v.token.generation_records]>>]

\* auth_service.get_token_data(token_id)
get_token_data_call(token_id) ==
    /\ res' = [op |-> "get_token_data", token_id |-> token_id,
               out |-> get_token_data(tokens, now, token_id)]
    /\ UNCHANGED NotQuery

NextQuery ==
    \/ \E id \in {T1, TX} : validate_token_call(id)
    \/ \E id \in {T1, TX} : can_generate_image_call(id)
    \/ \E id \in {T1, TX} : get_available_styles_call(id, Styles)
    \/ \E id \in {T1, TX}, h \in Hashes : validate_image_hash_call(id, h)
    \/ \E id \in {T1, TX} : get_token_data_call(id)
    \/ Tick

SpecQuery == InitQuery /\ [][NextQuery]_vars

\* ------------------------------------------------- loading and saving
\* a value of the tokens file that is not a JSON object (a string, a number,
\* a list or null where the object of a token should be)
NotAnObject == [not_an_object |-> "string"]

\* token_data has the method get, as a dict has
HasGet(token_data) == "not_an_object" \notin DOMAIN token_data

\* _load_tokens leaves by an exception that its except clause does not
\* name: token_data.get raises AttributeError on a value that is no dict
\* (only json.JSONDecodeError and IOError are caught)
_load_tokens_raises(content) ==
    /\ content.ok
    /\ \E id \in DOMAIN content.data : ~HasGet(content.data[id])

\* the values a tokens file can hold for one token id: a full record with
\* one generation, records with fields missing, and a value that is not an
\* object
StoreRecords ==
    {[NewTokenJson(2, 0, 1, 2) EXCEPT
         !.usage_count = 1, !.used_image_hashes = <<"H1">>,
         !.used_styles = <<"A">>,
         !.generation_records =
             <<[timestamp |-> 0, datetime |-> 0, image_hash |-> "H1",
                style |-> "A", output_files |-> <<"out1.png">>]>>],
     [theme |-> "fire"],
     [usage_count |-> 1, max_usage_count |-> 2],
     NotAnObject}

\* the tokens files the service can be started on
StoreFiles ==
    {CorruptFile} \cup
    {JsonFile(data) :
        data \in UNION {[ids -> StoreRecords] : ids \in SUBSET {T1, T2}}}

\* the process before auth_service = AuthService(TOKENS_FILE) has run
InitStore ==
    /\ file \in StoreFiles
    /\ file_mtime = 0
    /\ now = 0
    /\ tokens = EmptyMap
    /\ last_token_load = -1
    /\ caption_cache = EmptyMap
    /\ story_cache = EmptyMap
    /\ up = TRUE
    /\ saving = <<>>
    /\ save_from = <<>>
    /\ save_to = <<>>
    /\ interrupted = FALSE
    /\ th = [t \in Threads |-> Idle]
    /\ old = [i \in Slots |-> EmptyMap]
    /\ admin = [pc |-> "idle", existing_tokens |-> EmptyMap]
    /\ committed = {}
    /\ ret = NoCall
    /\ res = NoQuery
    /\ disk = NoFiles

NotStore == <<now, cacheVars, saving, save_from, save_to, interrupted,
              concVars, ret, disk>>

\* auth_service = AuthService(TOKENS_FILE): __init__ starts from no tokens
\* and calls _load_tokens; an exception that leaves _load_tokens leaves
\* __init__ and the module that constructs the service, and the process
\* does not come up
AuthService_init ==
    /\ up
    /\ IF _load_tokens_raises(file)
       THEN /\ up' = FALSE
            /\ res' = [op |-> "_load_tokens", token_id |-> 0,
                       out |-> [raised |-> TRUE, at |-> now]]
            /\ UNCHANGED <<tokens, last_token_load>>
       ELSE /\ up' = up
            /\ tokens' = _load_tokens(file, now)
            /\ last_token_load' = file_mtime
            /\ res' = [op |-> "_load_tokens", token_id |-> 0,
                       out |-> [raised |-> FALSE, at |-> now]]
    /\ UNCHANGED <<file, file_mtime, NotStore>>

\* auth_service._save_tokens() on the tokens in memory
_save_tokens_call ==
    /\ up
    /\ last_token_load # -1
    /\ file_mtime < MaxSaves
    /\ file' = _save_tokens(tokens)
    /\ file_mtime' = file_mtime + 1
    /\ res' = [op |-> "_save_tokens", token_id |-> 0,
               out |-> [raised |-> FALSE, at |-> now]]
    /\ UNCHANGED <<tokens, last_token_load, up, NotStore>>

NextStore ==
    \/ AuthService_init
    \/ _save_tokens_call
    \/ Tick

SpecStore == InitStore /\ [][NextStore]_vars

\* ------------------------------------------------- fingerprints of uploads
\* a file appears at a path, or its content is replaced (an upload is
\* written to its temporary path, a later upload reuses the name)
write_file(path, content) ==
    /\ disk' = [disk EXCEPT ![path] = <<content>>]
    /\ UNCHANGED <<authVars, now, cacheVars, procVars, concVars, ret, res>>

\* the file at a path is removed (temporary uploads are cleaned up)
remove_file(path) ==
    /\ disk[path] # <<>>
    /\ disk' = [disk EXCEPT ![path] = <<>>]
    /\ UNCHANGED <<authVars, now, cacheVars, procVars, concVars, ret, res>>

\* image_hash = calculate_image_hash(image_data)
calculate_image_hash_call(image_data) ==
    /\ res' = [op |-> "calculate_image_hash", token_id |-> 0,
               out |-> calculate_image_hash(disk, image_data),
               image_data |-> image_data]
    /\ UNCHANGED <<authVars, now, cacheVars, procVars, concVars, ret, disk>>

NextHash ==
    \/ \E path \in ImageData, content \in Contents : write_file(path, content)
    \/ \E path \in ImageData : remove_file(path)
    \/ \E image_data \in ImageData : calculate_image_hash_call(image_data)

SpecHash == Init /\ [][NextHash]_vars

\* --------------------------------------------------- batches of new tokens
\* In this specification the clock counts seconds, as int(time.time()) in
\* the token ids does; the expiry times of new tokens, days ahead, are after
\* every time reached.
Themes == {"ice", "fire"}

\* token_id = f"{prefix}{int(now) + i}" for i in range(count), with the
\* same prefix in every batch (int(time.time()) is AdminTokenId at time now)
BatchIds(count) == {AdminTokenId + i : i \in 0..(count - 1)}

\* the token ids of all batches
AdminIds == UNION {{3 + t + i : i \in 0..(MaxBatch - 1)} : t \in 0..MaxTime}

\* the service starts on an empty tokens file
InitAdmin ==
    /\ file = JsonFile(EmptyMap)
    /\ file_mtime = 0
    /\ now = 0
    /\ tokens = _load_tokens(file, now)
    /\ last_token_load = -1
    /\ caption_cache = EmptyMap
    /\ story_cache = EmptyMap
    /\ up = TRUE
    /\ saving = <<>>
    /\ save_from = <<>>
    /\ save_to = <<>>
    /\ interrupted = FALSE
    /\ th = [t \in Threads |-> Idle]
    /\ old = [i \in Slots |-> EmptyMap]
    /\ admin = [pc |-> "idle", existing_tokens |-> EmptyMap]
    /\ committed = {}
    /\ ret = NoCall
    /\ res = NoQuery
    /\ disk = NoFiles

\* generate_tokens_and_posters: admin_service.generate_tokens(count, theme,
\* ...) and admin_service.save_tokens(tokens), which reads the file, assigns
\* existing_tokens[token.token_id] for every token of the batch and writes
\* the file
generate_tokens_and_posters(count, theme) ==
    LET batch == [id \in BatchIds(count) |->
                     [NewTokenJson(StyleLimit, now, MaxTime + 1, MaxTime + 1)
                         EXCEPT !.theme = theme]]
        existing_tokens == IF file.ok THEN file.data ELSE EmptyMap
    IN /\ file_mtime < MaxWrites
       /\ file' = JsonFile([id \in (DOMAIN existing_tokens) \cup BatchIds(count) |->
                              IF id \in BatchIds(count) THEN batch[id]
                              ELSE existing_tokens[id]])
       /\ file_mtime' = file_mtime + 1
       /\ UNCHANGED <<tokens, last_token_load, now, NotAuth>>

\* a holder of a batch token uploads an image in style A
upload_btn_click(image_hash, token_id) ==
    /\ file_mtime < MaxWrites
    /\ handle_image_with_state(image_hash, "A", token_id, TRUE)

NextAdmin ==
    \/ \E count \in 1..MaxBatch, theme \in Themes :
          generate_tokens_and_posters(count, theme)
    \/ \E h \in Hashes, id \in AdminIds : upload_btn_click(h, id)
    \/ Tick

SpecAdmin == InitAdmin /\ [][NextAdmin]_vars

\* ------------------------------------------------ recording as time passes
\* record_image_usage calls, with any outcome of the save, while the clock
\* runs past the windows of the tokens
NextRecord ==
    \/ \E id \in RequestIds, h \in Hashes, s \in {"A", "B"}, o \in OutputLists,
          io \in IoOutcomes : record_image_usage_io(id, h, s, o, io)
    \/ Tick

SpecRecord == Init /\ [][NextRecord]_vars

\* ------------------------------------------- generation around the cache
\* what an upstream call hands back: a text, the empty text, or an exception
Raised == "<raised>"
CaptionResults == CaptionTexts \cup {"", Raised}
PromptResults == PromptTexts \cup {"", Raised}

\* Python's "not x" for an optional text
Falsy(x) == x = None \/ x = ""

\* the request of the last generation, the upstream calls it made and the
\* caption and prompt it went on with
Generation(op, image, style_key, additional_text, new_caption, new_prompt, upstream, captions, final_prompt, out) ==
    [op |-> op, token_id |-> 0, out |-> out, image |-> image,
     style_key |-> style_key, additional_text |-> additional_text,
     new_caption |-> new_caption, new_prompt |-> new_prompt,
     upstream |-> upstream, captions |-> captions,
     final_prompt |-> final_prompt]

\* WhiskService.generate_images(image_input1, "", style_key, additional_text)
\* with one image: _prepare_image_data, _process_captions, _get_final_prompt
\* and _generate_final_images; new_caption and new_prompt are what the
\* upstream calls return when they are made.  "|".join(captions) of the one
\* caption is that caption, one symbol of the key text.
generate_images(image_input1, style_key, additional_text, new_caption, new_prompt, image_files) ==
    LET cached_caption == get_caption(caption_cache, image_input1)
        caption_call == Falsy(cached_caption)
        captions == IF ~caption_call THEN <<cached_caption>>
                    ELSE IF new_caption \in {"", Raised} THEN <<>>
                    ELSE <<new_caption>>
        final_prompt == IF captions = <<>> THEN None
                        ELSE get_story_prompt(story_cache, captions, style_key,
                                              additional_text)
        prompt_call == captions # <<>> /\ Falsy(final_prompt)
        prompt == IF prompt_call THEN new_prompt ELSE final_prompt
        image_call == captions # <<>> /\ prompt # Raised
        upstream == (IF caption_call THEN <<"generate_caption">> ELSE <<>>)
                    \o (IF prompt_call THEN <<"generate_story_board">> ELSE <<>>)
                    \o (IF image_call THEN <<"generate_image_fx">> ELSE <<>>)
    IN /\ caption_cache' =
             IF caption_call /\ new_caption \notin {"", Raised}
             THEN InsertOrReplace(caption_cache, md5(image_input1),
                                  CaptionRow(new_caption, now))
             ELSE caption_cache
       /\ story_cache' =
             IF prompt_call /\ new_prompt \notin {"", Raised}
             THEN InsertOrReplace(story_cache,
                      md5(StoryKeyText(captions, style_key, additional_text)),
                      PromptRow(new_prompt, now))
             ELSE story_cache
       /\ Cardinality(DOMAIN caption_cache') + Cardinality(DOMAIN story_cache')
             <= MaxRows
       /\ res' = Generation("generate_images", image_input1, style_key,
                            additional_text, new_caption, new_prompt, upstream,
                            captions, prompt,
                            IF image_call /\ image_files THEN "images" ELSE None)
       /\ UNCHANGED <<authVars, now, procVars, concVars, ret, disk>>

\* ImageService.process_image(image_path, token_id, theme, style_key,
\* additional_text): the caption, story board and image calls in a row, each
\* made on the result of the one before; an exception ends the request
ImageService_process_image(image_path, style_key, additional_text, new_caption, new_prompt, image_files) ==
    LET caption_ok == new_caption \notin {"", Raised}
        prompt_ok == caption_ok /\ new_prompt \notin {"", Raised}
        upstream == <<"generate_caption">>
                    \o (IF caption_ok THEN <<"generate_story_board">> ELSE <<>>)
                    \o (IF prompt_ok THEN <<"generate_image_fx">> ELSE <<>>)
    IN /\ res' = Generation("process_image", image_path, style_key,
                            additional_text, new_caption, new_prompt, upstream,
                            IF caption_ok THEN <<new_caption>> ELSE <<>>,
                            IF caption_ok THEN new_prompt ELSE None,
                            IF prompt_ok /\ image_files THEN "images" ELSE None)
       /\ UNCHANGED <<cacheVars, authVars, now, procVars, concVars, ret, disk>>

\* the additional text of the requests
RequestTexts == {<<"d">>}

NextGenerate ==
    \/ \E i \in Images, s \in StyleKeys, a \in RequestTexts,
          c \in CaptionResults, p \in PromptResults, ok \in BOOLEAN :
          generate_images(i, s, a, c, p, ok)
    \/ \E i \in Images, s \in StyleKeys, a \in RequestTexts,
          c \in CaptionResults, p \in PromptResults, ok \in BOOLEAN :
          ImageService_process_image(i, s, a, c, p, ok)

SpecGenerate == Init /\ [][NextGenerate]_vars

\* ------------------------------------------------------------- page loads
\* the token of the URL a page is loaded with: <<>> when it carries none
PageTokens == {<<>>} \cup {<<id>> : id \in RequestIds}
\* the time that passes inside load_interface between validate_url_token
\* and get_token_stats, each of which reads the clock
Elapsed == {0, 1}

INVALID_LINK == "invalid pass link"
login_container == "login_container"
main_container == "main_container"
expired_container == "expired_container"

\* validate_url_token(request) after its reload_tokens() -> (is_valid, error_msg)
validate_url_token(toks, t, token) ==
    IF token = <<>>
    THEN [ok |-> FALSE, err |-> INVALID_LINK]
    ELSE LET v == validate_token(toks, t, token[1])
         IN [ok |-> v.ok, err |-> v.err]

\* get_token_stats(token_id)["access_valid"]
get_token_stats(toks, t, token_id) ==
    LET token_data == get_token_data(toks, t, token_id)
    IN IF ~token_data.valid THEN FALSE
       ELSE IF ~validate_token(toks, t, token_id).ok THEN FALSE
       ELSE token_data.data[1].is_access_valid

\* update_ui(state): the containers made visible
update_ui(toks, t, view, token) ==
    IF view = "login" THEN {login_container}
    ELSE IF view = "expired" THEN {expired_container}
    ELSE IF token = <<>> \/ ~validate_token(toks, t, token[1]).ok
    THEN {login_container}
    ELSE {main_container}

\* load_interface(request) on page load, and update_ui on the change of
\* page_state: res.out is the view, res.screens the visible containers
load_interface(token, elapsed) ==
    /\ now + elapsed <= MaxTime
    /\ reload_tokens
    /\ now' = now + elapsed
    /\ LET valid == validate_url_token(tokens', now, token)
           view == IF ~valid.ok THEN "login"
                   ELSE IF ~get_token_stats(tokens', now', token[1])
                   THEN "expired"
                   ELSE "main"
       IN res' = [op |-> "load_interface",
                  token_id |-> IF token = <<>> THEN 0 ELSE token[1],
                  out |-> view,
                  error |-> IF valid.ok THEN None ELSE valid.err,
                  screens |-> update_ui(tokens', now', view, token)]
    /\ UNCHANGED <<file, file_mtime, th, admin, committed, cacheVars, procVars,
                   ret, disk>>

NextPage ==
    \/ \E token \in PageTokens, elapsed \in Elapsed : load_interface(token, elapsed)
    \/ \E id \in RequestIds, h \in Hashes, s \in Styles, o \in OutputLists :
          record_image_usage(id, h, s, o)
    \/ Tick

SpecPage == Init /\ [][NextPage]_vars

\* -------------------------------------------------- migration from JSON
\* the legacy JSON caches map hash keys to texts; <<>> is a file that is
\* missing or cannot be read, <<data>> one that json.load reads as data
JsonMaps(keys, values) == UNION {[s -> values] : s \in SUBSET keys}
CaptionJsons ==
    {<<>>} \cup {<<data>> : data \in JsonMaps({md5(i) : i \in Images}, CaptionTexts)}
StoryJsonKeys == {md5(StoryKeyText(<<"a">>, <<"b">>, <<"d">>))}
StoryJsons ==
    {<<>>} \cup {<<data>> : data \in JsonMaps(StoryJsonKeys, PromptTexts)}

\* the file was read and `if caption_data:` holds
HasData(json) == json # <<>> /\ DOMAIN json[1] # {}

\* INSERT OR IGNORE of every row of rows
InsertOrIgnoreAll(table, rows) ==
    [k \in (DOMAIN table) \cup (DOMAIN rows) |->
        IF k \in DOMAIN table THEN table[k] ELSE rows[k]]

\* the tables named in a _migrate_from_json call: filled, or left alone
\* although their JSON file has data
Migration(filled, skipped) ==
    [op |-> "_migrate_from_json", token_id |-> 0, out |-> None,
     filled |-> filled, skipped |-> skipped]

\* a migration that writes the JSON items over the rows of the table
_migrate_from_json_replacing(caption_json, story_json) ==
    /\ caption_cache' =
          IF HasData(caption_json)
          THEN [k \in (DOMAIN caption_cache) \cup (DOMAIN caption_json[1]) |->
                   IF k \in DOMAIN caption_json[1]
                   THEN CaptionRow(caption_json[1][k], now)
                   ELSE caption_cache[k]]
          ELSE caption_cache
    /\ story_cache' =
          IF HasData(story_json)
          THEN [k \in (DOMAIN story_cache) \cup (DOMAIN story_json[1]) |->
                   IF k \in DOMAIN story_json[1]
                   THEN PromptRow(story_json[1][k], now)
                   ELSE story_cache[k]]
          ELSE story_cache
    /\ res' = Migration(
          (IF HasData(caption_json) THEN {"caption_cache"} ELSE {})
             \cup (IF HasData(story_json) THEN {"story_cache"} ELSE {}), {})
    /\ UNCHANGED <<authVars, now, procVars, concVars, ret, disk>>

\* WhiskCacheSQLite._migrate_from_json() with the two JSON files as they are
\* on disk: a table is filled when its file has data and SELECT COUNT(*)
\* of the table is 0
_migrate_from_json(caption_json, story_json) ==
    LET fill_captions == HasData(caption_json) /\ DOMAIN caption_cache = {}
        fill_stories == HasData(story_json) /\ DOMAIN story_cache = {}
    IN /\ caption_cache' =
             IF fill_captions
             THEN InsertOrIgnoreAll(caption_cache,
                      [k \in DOMAIN caption_json[1] |->
                          CaptionRow(caption_json[1][k], now)])
             ELSE caption_cache
       /\ story_cache' =
             IF fill_stories
             THEN InsertOrIgnoreAll(story_cache,
                      [k \in DOMAIN story_json[1] |->
                          PromptRow(story_json[1][k], now)])
             ELSE story_cache
       /\ res' = Migration(
             (IF fill_captions THEN {"caption_cache"} ELSE {})
                \cup (IF fill_stories THEN {"story_cache"} ELSE {}),
             (IF HasData(caption_json) /\ ~fill_captions
              THEN {"caption_cache"} ELSE {})
                \cup (IF HasData(story_json) /\ ~fill_stories
                      THEN {"story_cache"} ELSE {}))
       /\ UNCHANGED <<authVars, now, procVars, concVars, ret, disk>>

NextMigrate ==
    \/ \E i \in Images, c \in CaptionTexts : save_caption(i, c)
    \/ \E caption_json \in CaptionJsons, story_json \in StoryJsons :
          _migrate_from_json(caption_json, story_json)
    \/ Tick

SpecMigrate == Init /\ [][NextMigrate]_vars

\* ------------------------------------------------------- claims under Spec
\* C1: no step of the service lowers a token's usage_count, in memory or in
\* the store: every record_image_usage call, accepted or rejected, and every
\* request that ends in one, leaves usage_count at least what it was.
C1_UsageCountNonDecreasing ==
    [][/\ \A id \in DOMAIN tokens :
            /\ id \in DOMAIN tokens'
            /\ tokens'[id].usage_count >= tokens[id].usage_count
       /\ \A id \in DOMAIN file.data :
            /\ id \in DOMAIN file'.data
            /\ file'.data[id].usage_count >= file.data[id].usage_count]_vars

\* C1 witness: T1 was recorded twice, and T2 was refused after its access
\* window had closed
C1_Witness ==
    /\ tokens[T1].usage_count = 2 /\ file.data[T1].usage_count = 2
    /\ ~record_image_usage_ret(tokens, now, T2)

\* C2 (as claimed): a token never holds more than one used image hash
C2_AtMostOneImage ==
    \A id \in DOMAIN tokens : Len(tokens[id].used_image_hashes) <= 1

\* C3 (as claimed): a token with a used image accepts that image and rejects
\* every other one with the image-mismatch error
C3_RejectsOtherImages ==
    \A id \in DOMAIN tokens : \A h \in Hashes :
        Len(tokens[id].used_image_hashes) > 0 =>
            LET r == validate_image_hash(tokens, now, id, h) IN
            IF Contains(tokens[id].used_image_hashes, h)
            THEN r.ok
            ELSE ~r.ok /\ r.err = IMAGE_MISMATCH

\* C3 (amended): while the token's access window is open, a token with a
\* used image accepts the images in used_image_hashes and rejects every other
\* one with the image-mismatch error
C3_RejectsOtherImagesWhileAccessValid ==
    \A id \in DOMAIN tokens : \A h \in Hashes :
        (Len(tokens[id].used_image_hashes) > 0 /\ is_access_valid(tokens[id], now)) =>
            LET r == validate_image_hash(tokens, now, id, h) IN
            IF Contains(tokens[id].used_image_hashes, h)
            THEN r.ok /\ r.err = None
            ELSE ~r.ok /\ r.err = IMAGE_MISMATCH

\* C3 witness: T1 has recorded image H1 and nothing else, with access open
C3_Witness ==
    /\ tokens[T1].used_image_hashes = <<"H1">>
    /\ is_access_valid(tokens[T1], now)
    /\ ~validate_image_hash(tokens, now, T1, "H2").ok

\* C5 (as claimed): usage_count never exceeds max_usage_count
C5_QuotaIsCeiling ==
    \A id \in DOMAIN tokens : tokens[id].usage_count <= tokens[id].max_usage_count

C4_AtMostThreeStyles ==
    /\ \A id \in DOMAIN tokens : Len(tokens[id].used_styles) <= StyleLimit
    /\ \A i \in Slots : \A id \in DOMAIN old[i] :
           Len(old[i][id].used_styles) <= StyleLimit
    /\ \A id \in DOMAIN file.data : Len(file.data[id].used_styles) <= StyleLimit

\* C6 (as claimed): of concurrent requests on T1 (max_usage_count = 1,
\* usage_count = 0) at most one commits, and usage_count never reaches 2
C6_ExactlyOneCommits ==
    /\ Cardinality({c \in committed : c.token_id = T1}) <= 1
    /\ T1 \in DOMAIN tokens => tokens[T1].usage_count < 2
    /\ T1 \in DOMAIN file.data => file.data[T1].usage_count < 2

\* C7 (as claimed): when the record of one request on a token takes effect,
\* no other request on that token is between its passed checks and the end
\* of its own record
C7_CheckThenRecordAtomic ==
    [][\A u \in Threads :
          (th[u].pc = "rec4" /\ th'[u].pc = "history") =>
              \A t \in Threads \ {u} :
                  ~ /\ th[t].pc \in {"process", "rec1", "rec2", "rec3", "rec4"}
                    /\ th[t].token_id = th[u].token_id]_vars

\* C8 (as claimed): every record for which record_image_usage has returned
\* True stays in the tokens file
C8_CommittedRecordsStay ==
    \A c \in committed :
        /\ c.token_id \in DOMAIN file.data
        /\ Contains(file.data[c.token_id].generation_records, c.record)

\* --------------------------------------------------- claims under SpecGate
\* C18 (as claimed): requests are refused before accounting once 3 styles
\* are used, so the generation records of a token, in memory and in the
\* file, never cover more than 3 distinct styles
C18_RecordsCoverAtMostThreeStyles ==
    /\ \A id \in DOMAIN tokens :
           Cardinality({tokens[id].generation_records[i].style :
                           i \in 1..Len(tokens[id].generation_records)})
               <= StyleLimit
    /\ \A id \in DOMAIN file.data :
           Cardinality({file.data[id].generation_records[i].style :
                           i \in 1..Len(file.data[id].generation_records)})
               <= StyleLimit

\* -------------------------------------------------- claims under SpecQuota
\* C20 (as claimed): on a token that started unused with both expiry times
\* in the future, every generation with quota left and the token's
\* fingerprint is recorded: usage_count grows by 1 and a new style is
\* appended to used_styles
C20_EveryGenerationWithinQuotaRecorded ==
    [][\A h \in Hashes, label \in StyleLabels :
          (/\ handle_image_with_state(h, label, T1, TRUE)
           /\ tokens[T1].usage_count < tokens[T1].max_usage_count
           /\ \/ tokens[T1].used_image_hashes = <<>>
              \/ Contains(tokens[T1].used_image_hashes, h))
          => tokens'[T1].usage_count = tokens[T1].usage_count + 1]_vars

\* C20 (amended): on a token that started unused with max_usage_count = n
\* and both expiry times in the future, every generation with quota left,
\* the token's fingerprint and a style that is already used, or new while
\* fewer than 3 styles are used, is answered with success and recorded:
\* usage_count grows by 1 and a new style is appended at the end of
\* used_styles; usage_count never passes n, and
\* once it is n can_generate_image reports quota exhaustion although
\* usage_valid_until has not passed
C20_QuotaScenario ==
    /\ [](\A id \in DOMAIN tokens :
             /\ tokens[id].usage_count <= tokens[id].max_usage_count
             /\ tokens[id].usage_count = tokens[id].max_usage_count =>
                    /\ now < tokens[id].usage_valid_until
                    /\ ~can_generate_image(tokens, now, id).ok
                    /\ can_generate_image(tokens, now, id).err = QUOTA_EXHAUSTED)
    /\ [][\A h \in Hashes, label \in StyleLabels :
             (/\ handle_image_with_state(h, label, T1, TRUE)
              /\ tokens[T1].usage_count < tokens[T1].max_usage_count
              /\ \/ tokens[T1].used_image_hashes = <<>>
                 \/ Contains(tokens[T1].used_image_hashes, h)
              /\ LET style == IF label = "" THEN default_style ELSE label
                 IN \/ Contains(tokens[T1].used_styles, style)
                    \/ Len(tokens[T1].used_styles) < StyleLimit)
             => LET style == IF label = "" THEN default_style ELSE label IN
                /\ res'.out.msg = CREATED
                /\ tokens'[T1].usage_count = tokens[T1].usage_count + 1
                /\ tokens'[T1].used_image_hashes = <<h>>
                /\ tokens'[T1].used_styles =
                       IF Contains(tokens[T1].used_styles, style)
                          \/ Len(tokens[T1].used_styles) >= StyleLimit
                       THEN tokens[T1].used_styles
                       ELSE Append(tokens[T1].used_styles, style)]_vars

\* a token with max_usage_count = 2 has generated twice, in style B and
\* then in style A, and can_generate_image has then reported the quota
C20_Witness ==
    /\ tokens[T1].max_usage_count = 2 /\ tokens[T1].usage_count = 2
    /\ tokens[T1].used_styles = <<"B", "A">>
    /\ Len(tokens[T1].generation_records) = 2
    /\ now < tokens[T1].usage_valid_until
    /\ res.op = "can_generate_image"
    /\ res.out = can_generate_image(tokens, now, T1)
    /\ res.out.err = QUOTA_EXHAUSTED

\* -------------------------------------------------- claims under SpecFault
\* C11 (as claimed): a record_image_usage whose save failed with an I/O
\* error does not return what a call whose save succeeded returns (True)
C11_FailedSaveIsReported ==
    ret.io \in FailedIo => ret.value = FALSE

\* C12 (as claimed): after a record_image_usage whose save failed, the token
\* in memory equals the token in the file
C12_MemoryMatchesStoreAfterFailedSave ==
    ret.io \in FailedIo =>
        /\ file.ok
        /\ ret.token_id \in DOMAIN tokens
        /\ ret.token_id \in DOMAIN file.data
        /\ token_to_json(tokens[ret.token_id]) = file.data[ret.token_id]

\* -------------------------------------------------- claims under SpecQuery
\* C13: validate_token fails with the unknown-token error and no token for
\* an id not in the store, fails with the access-expired error when
\* now >= access_valid_until, otherwise succeeds and returns the token; the
\* outcome is the same for every usage_count and usage_valid_until
C13_ValidateToken ==
    \A id \in {T1, TX} :
        LET v == validate_token(tokens, now, id) IN
        /\ id \notin DOMAIN tokens =>
               ~v.ok /\ v.err = UNKNOWN_TOKEN /\ v.token = None
        /\ id \in DOMAIN tokens =>
               /\ now >= tokens[id].access_valid_until =>
                      ~v.ok /\ v.err = ACCESS_EXPIRED
               /\ now < tokens[id].access_valid_until =>
                      v.ok /\ v.err = None /\ v.token = tokens[id]
               /\ \A uc \in 0..MaxCount, uv \in 0..MaxTime :
                      LET w == validate_token(
                                   [tokens EXCEPT ![id].usage_count = uc,
                                                  ![id].usage_valid_until = uv],
                                   now, id)
                      IN w.ok = v.ok /\ w.err = v.err

\* validate_token has accepted a token whose quota is used up and whose
\* usage window has closed
C13_Witness ==
    /\ res.op = "validate_token" /\ res.token_id = T1
    /\ res.out = validate_token(tokens, now, T1)
    /\ res.out.ok
    /\ tokens[T1].usage_count >= tokens[T1].max_usage_count
    /\ now >= tokens[T1].usage_valid_until

\* C14: with access valid, usage_count >= max_usage_count and
\* now >= usage_valid_until, can_generate_image reports quota exhaustion;
\* it reports usage-window expiry only when usage_count < max_usage_count
C14_QuotaReportedOverExpiry ==
    \A id \in DOMAIN tokens :
        LET c == can_generate_image(tokens, now, id) IN
        /\ (/\ is_access_valid(tokens[id], now)
            /\ tokens[id].usage_count >= tokens[id].max_usage_count
            /\ now >= tokens[id].usage_valid_until)
               => ~c.ok /\ c.err = QUOTA_EXHAUSTED
        /\ c.err = USAGE_EXPIRED =>
               tokens[id].usage_count < tokens[id].max_usage_count

\* can_generate_image has answered for a token with both conditions true
C14_Witness ==
    /\ res.op = "can_generate_image" /\ res.token_id = T1
    /\ res.out = can_generate_image(tokens, now, T1)
    /\ res.out.err = QUOTA_EXHAUSTED
    /\ is_access_valid(tokens[T1], now)
    /\ tokens[T1].usage_count >= tokens[T1].max_usage_count
    /\ now >= tokens[T1].usage_valid_until

\* C15: can_generate_image reports the error of validate_token whenever
\* validate_token fails, and succeeds exactly when validate_token succeeds,
\* now < usage_valid_until and usage_count < max_usage_count
C15_ValidateTokenFirst ==
    \A id \in {T1, TX} :
        LET c == can_generate_image(tokens, now, id)
            v == validate_token(tokens, now, id)
        IN /\ ~v.ok => ~c.ok /\ c.err = v.err /\ c.token = None
           /\ c.ok <=> /\ v.ok
                       /\ now < tokens[id].usage_valid_until
                       /\ tokens[id].usage_count < tokens[id].max_usage_count

\* can_generate_image has reported access expiry for a token whose quota
\* is used up as well
C15_Witness ==
    /\ res.op = "can_generate_image" /\ res.token_id = T1
    /\ res.out = can_generate_image(tokens, now, T1)
    /\ res.out.err = ACCESS_EXPIRED
    /\ tokens[T1].usage_count >= tokens[T1].max_usage_count

\* C16: a token inside its access window whose usage window has closed or
\* whose quota is used up passes validate_token and fails can_generate_image
C16_ViewableNotGeneratable ==
    \A id \in DOMAIN tokens :
        (/\ now < tokens[id].access_valid_until
         /\ \/ tokens[id].usage_valid_until <= now
            \/ tokens[id].usage_count >= tokens[id].max_usage_count)
        => /\ validate_token(tokens, now, id).ok
           /\ ~can_generate_image(tokens, now, id).ok

\* can_generate_image has refused a token, with quota left, that
\* validate_token accepts
C16_Witness ==
    /\ res.op = "can_generate_image" /\ res.token_id = T1
    /\ res.out = can_generate_image(tokens, now, T1)
    /\ ~res.out.ok
    /\ validate_token(tokens, now, T1).ok
    /\ tokens[T1].usage_count < tokens[T1].max_usage_count

\* the state the claim gives a style of a token
ClaimedStyleState(token, style) ==
    IF Len(token.used_image_hashes) = 0 THEN None
    ELSE IF Contains(token.used_styles, style) THEN StyleUsed
    ELSE IF Len(token.used_styles) < StyleLimit THEN None
    ELSE StyleUnavailable

\* C19 (as claimed): for every token, get_available_styles gives every
\* style of all_styles the state the claim describes
C19_StyleStates ==
    \A id \in DOMAIN tokens : \A style \in Styles :
        get_available_styles(tokens, now, id, Styles)[style] =
            ClaimedStyleState(tokens[id], style)

\* C19 (amended): for every token that validate_token accepts,
\* get_available_styles gives every style of all_styles the state the claim
\* describes, and its result has exactly the styles of all_styles as keys
C19_StyleStatesWhileAccessValid ==
    \A id \in DOMAIN tokens :
        validate_token(tokens, now, id).ok =>
            /\ DOMAIN get_available_styles(tokens, now, id, Styles) = Styles
            /\ \A style \in Styles :
                   get_available_styles(tokens, now, id, Styles)[style] =
                       ClaimedStyleState(tokens[id], style)

\* get_available_styles has answered for a token with a committed image
\* and 3 used styles: A is used, D is not available
C19_Witness ==
    /\ res.op = "get_available_styles" /\ res.token_id = T1
    /\ res.out = get_available_styles(tokens, now, T1, Styles)
    /\ validate_token(tokens, now, T1).ok
    /\ Len(tokens[T1].used_image_hashes) > 0
    /\ Len(tokens[T1].used_styles) = StyleLimit
    /\ res.out["A"] = StyleUsed /\ res.out["D"] = StyleUnavailable

\* -------------------------------------------------- claims under SpecCache
\* C9 (as claimed): a write never replaces the value of a key that is
\* already in the caption cache or in the prompt cache
C9_FirstWriteWins ==
    [][((\E i \in Images, c \in CaptionTexts : save_caption(i, c))
        \/ (\E c \in Captions, s \in StyleKeys, a \in AdditionalTexts,
               p \in PromptTexts : save_story_prompt(c, s, a, p)))
       => /\ \A k \in DOMAIN caption_cache :
                caption_cache'[k].caption = caption_cache[k].caption
          /\ \A k \in DOMAIN story_cache :
                story_cache'[k].prompt = story_cache[k].prompt]_vars

\* -------------------------------------------------- claims under SpecCrash
\* C10 (as claimed): the tokens loaded after a save was interrupted are the
\* complete set from before that save or the complete set it was writing
C10_InterruptedSaveKeepsStore ==
    (up /\ interrupted) =>
        \/ tokens = _load_tokens(save_from[1], now)
        \/ tokens = _load_tokens(save_to[1], now)

\* ----------------------------------------- further claims under SpecGate
\* the request carries a fingerprint other than the one the token is
\* committed to
OtherImage(token_id, image_hash) ==
    /\ token_id \in DOMAIN tokens
    /\ tokens[token_id].used_image_hashes # <<>>
    /\ ~Contains(tokens[token_id].used_image_hashes, image_hash)

\* C21 (as claimed): a request carrying a fingerprint other than the one its
\* token is committed to is rejected with the image-mismatch error, and no
\* upstream generation call is made for it
C21_MismatchBeforeUpstream ==
    [][\A h \in Hashes, s \in StyleLabels, id \in RequestIds, ok \in BOOLEAN :
          (/\ OtherImage(id, h) /\ res'.token_id = id
           /\ handle_image_with_state(h, s, id, ok)) =>
              /\ res'.out.msg = IMAGE_MISMATCH
              /\ res'.upstream = <<>>]_vars

\* C21 (amended): a request carrying a fingerprint other than the one its
\* token is committed to never reaches an upstream generation call, and
\* while the access window of the token is open it is rejected with the
\* image-mismatch error
C21_MismatchBeforeUpstreamWhileAccessValid ==
    [][\A h \in Hashes, s \in StyleLabels, id \in RequestIds, ok \in BOOLEAN :
          (/\ OtherImage(id, h) /\ res'.token_id = id
           /\ handle_image_with_state(h, s, id, ok)) =>
              /\ res'.upstream = <<>>
              /\ is_access_valid(tokens[id], now) =>
                     res'.out.msg = IMAGE_MISMATCH]_vars

\* a request on T2, committed to H1, has carried H2 while T2 could still
\* generate, and was answered with the image-mismatch error
C21_Witness ==
    /\ res.op = "handle_image_with_state" /\ res.token_id = T2
    /\ res.out.msg = IMAGE_MISMATCH
    /\ res.upstream = <<>>
    /\ tokens[T2].used_image_hashes = <<"H1">>
    /\ can_generate_image(tokens, now, T2).ok

\* the accounting fields of every token, in memory and in the file
Accounting(toks) ==
    [id \in DOMAIN toks |->
        [usage_count |-> toks[id].usage_count,
         used_image_hashes |-> toks[id].used_image_hashes,
         used_styles |-> toks[id].used_styles,
         generation_records |-> toks[id].generation_records]]

\* C22: a request that is not answered with the success message (rejected
\* by a token, quota, expiry, image or style check, or failed upstream)
\* leaves usage_count, used_image_hashes, used_styles and generation_records
\* of every token unchanged, in memory and in the tokens file
C22_OnlySuccessIsCounted ==
    [][\A h \in Hashes, s \in StyleLabels, id \in RequestIds, ok \in BOOLEAN :
          (/\ res'.op = "handle_image_with_state" /\ res'.token_id = id
           /\ res'.out.msg # CREATED
           /\ handle_image_with_state(h, s, id, ok)) =>
              /\ Accounting(tokens') = Accounting(tokens)
              /\ Accounting(file'.data) = Accounting(file.data)]_vars

\* a request on T1 passed every check, called upstream, and upstream failed
C22_Witness ==
    /\ res.op = "handle_image_with_state" /\ res.token_id = T1
    /\ res.out.msg = GENERATION_FAILED
    /\ res.upstream = <<"process_image">>
    /\ tokens[T1].usage_count = 0
    /\ tokens[T1].generation_records = <<>>

\* -------------------------------------------------- claims under SpecStore
\* C23: saving the tokens that were loaded and loading the written file
\* again, at that time or at any later one, gives the tokens that were
\* loaded first: the same ids and the same value of every field
C23_SaveLoadRoundTrip ==
    [][_save_tokens_call =>
          \A t \in now..(MaxTime + 1) :
              /\ ~_load_tokens_raises(file')
              /\ _load_tokens(file', t) = tokens]_vars

\* T1, stored with nothing but its theme, was loaded at time 0 (created_at
\* defaulted to 0), saved, and loaded again at a later time
C23_Witness ==
    /\ res.op = "_load_tokens" /\ ~res.out.raised /\ res.out.at > 0
    /\ file_mtime > 0
    /\ T1 \in DOMAIN tokens
    /\ tokens[T1].theme = "fire"
    /\ tokens[T1].created_at = 0
    /\ tokens[T1].usage_valid_until = 1

\* C24 (as claimed): loading a tokens file that holds a malformed record is
\* not fatal and skips only that record: the service is up after the load
\* and every record of the file that is a JSON object is among its tokens
C24_MalformedRecordSkipped ==
    [][(AuthService_init /\ file.ok) =>
          /\ up'
          /\ \A id \in DOMAIN file.data :
                 HasGet(file.data[id]) => id \in DOMAIN tokens']_vars

\* --------------------------------------------- further claims under SpecConc
\* C25 (as claimed): once the admin tool has written its new token to the
\* tokens file, every request that starts afterwards runs on tokens that
\* hold the new token, and validate_token accepts it
C25_AdminTokensVisible ==
    [][\A t \in Threads, h \in Hashes, s \in StyleLabels, id \in RequestIds :
          (handle_upload_image(t, h, s, id) /\ admin.pc = "done") =>
              /\ AdminTokenId \in DOMAIN tokens'
              /\ validate_token(tokens', now, AdminTokenId).ok]_vars

\* ------------------------------------------ further claims under SpecQuery
\* C26: validate_token, can_generate_image, validate_image_hash,
\* get_available_styles and get_token_data, whether they succeed or fail,
\* leave every field of every token in memory and the tokens file as they
\* were
C26_QueriesChangeNothing ==
    [][\A id \in {T1, TX}, h \in Hashes :
          (/\ now' = now /\ res'.token_id = id
           /\ \/ res'.op = "validate_token" /\ validate_token_call(id)
              \/ res'.op = "can_generate_image" /\ can_generate_image_call(id)
              \/ res'.op = "validate_image_hash"
                    /\ validate_image_hash_call(id, h)
              \/ res'.op = "get_available_styles"
                    /\ get_available_styles_call(id, Styles)
              \/ res'.op = "get_token_data" /\ get_token_data_call(id)) =>
              /\ tokens' = tokens
              /\ file' = file
              /\ file_mtime' = file_mtime]_vars

\* validate_image_hash has accepted H2 for T1, which has used no image, and
\* T1 still has used no image
C26_Witness ==
    /\ res.op = "validate_image_hash" /\ res.token_id = T1
    /\ res.out.ok
    /\ tokens[T1].used_image_hashes = <<>>
    /\ file.data[T1].used_image_hashes = <<>>

\* list a is the start of list b
StartsWith(b, a) == Len(a) <= Len(b) /\ \A i \in 1..Len(a) : b[i] = a[i]

\* C27 (as claimed): generation_records is an append-only log: in every
\* step the records held for a token, in memory and in the tokens file, are
\* a prefix of the records held for it afterwards (none removed, reordered
\* or modified)
C27_RecordsAppendOnly ==
    [][/\ \A id \in DOMAIN tokens :
             /\ id \in DOMAIN tokens'
             /\ StartsWith(tokens'[id].generation_records,
                           tokens[id].generation_records)
       /\ \A id \in DOMAIN file.data :
             /\ id \in DOMAIN file'.data
             /\ StartsWith(file'.data[id].generation_records,
                           file.data[id].generation_records)]_vars

\* ------------------------------------------------- claims under SpecLookup
\* C28: get_caption and get_story_prompt return the value stored under the
\* key when the key is in the table and None, without an error, when it is
\* not, and in both cases leave the two tables as they were
C28_LookupReadsOnly ==
    [][/\ \A i \in Images :
             (res'.op = "get_caption" /\ get_caption_call(i)) =>
                 /\ caption_cache' = caption_cache
                 /\ story_cache' = story_cache
                 /\ res'.out = IF md5(i) \in DOMAIN caption_cache
                               THEN caption_cache[md5(i)].caption ELSE None
       /\ \A c \in Captions, s \in StyleKeys, a \in AdditionalTexts :
             (res'.op = "get_story_prompt" /\ get_story_prompt_call(c, s, a)) =>
                 LET cache_key == md5(StoryKeyText(c, s, a)) IN
                 /\ caption_cache' = caption_cache
                 /\ story_cache' = story_cache
                 /\ res'.out = IF cache_key \in DOMAIN story_cache
                               THEN story_cache[cache_key].prompt ELSE None]_vars

\* get_caption has returned the caption stored for img1, which is still
\* stored, while img2 has no row
C28_Witness ==
    /\ res.op = "get_caption" /\ res.out = "v1"
    /\ md5("img1") \in DOMAIN caption_cache
    /\ caption_cache[md5("img1")].caption = "v1"
    /\ md5("img2") \notin DOMAIN caption_cache
    /\ get_caption(caption_cache, "img2") = None

\* ------------------------------------------ further claims under SpecCache
\* C29 (as claimed): clear_cache() deletes every row of both tables;
\* clear_cache(older_than_days) deletes exactly the rows created before now
\* minus that age and keeps every row created at or after that cutoff, with
\* its value
C29_ClearDeletesExactlyOlder ==
    [][\A d \in OlderThanDays, o \in UtcOffsets :
          clear_cache(d, o) =>
              IF d = <<>>
              THEN caption_cache' = EmptyMap /\ story_cache' = EmptyMap
              ELSE /\ DOMAIN caption_cache' =
                        {k \in DOMAIN caption_cache :
                            caption_cache[k].created_at >= now - d[1]}
                   /\ \A k \in DOMAIN caption_cache' :
                          caption_cache'[k] = caption_cache[k]
                   /\ DOMAIN story_cache' =
                        {k \in DOMAIN story_cache :
                            story_cache[k].created_at >= now - d[1]}
                   /\ \A k \in DOMAIN story_cache' :
                          story_cache'[k] = story_cache[k]]_vars

\* C30 (as claimed): two tuples (caption, style_key, additional_text) that
\* differ in a field never share a key, so saving a prompt for one tuple
\* leaves what a lookup returns for every other tuple as it was
C30_TuplesNeverShareKey ==
    [][\A c \in Captions, s \in StyleKeys, a \in AdditionalTexts,
          p \in PromptTexts :
          save_story_prompt(c, s, a, p) =>
              \A c2 \in Captions, s2 \in StyleKeys, a2 \in AdditionalTexts :
                  <<c2, s2, a2>> # <<c, s, a>> =>
                      get_story_prompt(story_cache', c2, s2, a2) =
                          get_story_prompt(story_cache, c2, s2, a2)]_vars

\* --------------------------------------------------- claims under SpecHash
\* C31 (as claimed): the fingerprint is a function of its argument alone:
\* two calls in a row with the same string argument return the same digest,
\* whichever files exist at either call
C31_FingerprintIsPure ==
    [][(/\ res.op = "calculate_image_hash"
        /\ res'.op = "calculate_image_hash"
        /\ res'.image_data = res.image_data) =>
           res'.out = res.out]_vars

\* ------------------------------------------ further claims under SpecQuery
\* the reasons a validation can give
FailureReasons ==
    {UNKNOWN_TOKEN, ACCESS_EXPIRED, USAGE_EXPIRED, QUOTA_EXHAUSTED,
     IMAGE_MISMATCH}

\* C32: validate_token, can_generate_image and validate_image_hash return
\* every failure as ok = FALSE with one of the five reasons, none of them
\* empty, and every success as ok = TRUE with no reason; the five reasons
\* are pairwise distinct; and what the calls made have returned is of that
\* form
C32_FailuresAreResults ==
    /\ Cardinality(FailureReasons) = 5
    /\ None \notin FailureReasons /\ "" \notin FailureReasons
    /\ \A id \in {T1, TX}, h \in Hashes :
          LET v == validate_token(tokens, now, id)
              c == can_generate_image(tokens, now, id)
              i == validate_image_hash(tokens, now, id, h)
          IN /\ IF v.ok THEN v.err = None
                ELSE v.err \in {UNKNOWN_TOKEN, ACCESS_EXPIRED}
             /\ IF c.ok THEN c.err = None
                ELSE c.err \in FailureReasons \ {IMAGE_MISMATCH}
             /\ IF i.ok THEN i.err = None
                ELSE i.err \in {UNKNOWN_TOKEN, ACCESS_EXPIRED, IMAGE_MISMATCH}
    /\ res.op \in {"validate_token", "can_generate_image",
                   "validate_image_hash"} =>
          IF res.out.ok THEN res.out.err = None
          ELSE res.out.err \in FailureReasons

\* validate_image_hash has rejected an image for T1, whose access is open,
\* with the mismatch reason, while can_generate_image gives another reason
C32_Witness ==
    /\ res.op = "validate_image_hash" /\ res.token_id = T1
    /\ ~res.out.ok /\ res.out.err = IMAGE_MISMATCH
    /\ can_generate_image(tokens, now, T1).err = QUOTA_EXHAUSTED
    /\ validate_token(tokens, now, TX).err = UNKNOWN_TOKEN

\* -------------------------------------------------- claims under SpecAdmin
\* C33 (as claimed): a batch never produces an id that is already in the
\* tokens file, and saving it leaves every token that was in the file as it
\* was
C33_BatchesNeverOverwrite ==
    [][\A count \in 1..MaxBatch, theme \in Themes :
          generate_tokens_and_posters(count, theme) =>
              /\ BatchIds(count) \cap DOMAIN file.data = {}
              /\ \A id \in DOMAIN file.data :
                     /\ id \in DOMAIN file'.data
                     /\ file'.data[id] = file.data[id]]_vars

\* ----------------------------------------------- claims under SpecGenerate
\* C34: every generation request goes to the cache before and after each
\* upstream call.  A caption cached for the request's image means that no
\* upstream caption call is made and the cached caption is used; without
\* one the call is made, a non-empty result is stored under the image's key
\* and an empty or failed result leaves the caption table as it was.  The
\* same holds for the prompt under the key of caption, style and
\* additional text.
C34_CacheAroundUpstream ==
    [][res'.op \in {"generate_images", "process_image"} =>
         LET hash_key == md5(res'.image)
             cache_key == md5(StoryKeyText(res'.captions, res'.style_key,
                                           res'.additional_text))
             stored(x) == x \notin {"", Raised}
         IN /\ IF hash_key \in DOMAIN caption_cache
               THEN /\ ~Contains(res'.upstream, "generate_caption")
                    /\ res'.captions = <<caption_cache[hash_key].caption>>
                    /\ caption_cache' = caption_cache
               ELSE /\ Contains(res'.upstream, "generate_caption")
                    /\ IF stored(res'.new_caption)
                       THEN caption_cache' = InsertOrReplace(caption_cache,
                                hash_key, CaptionRow(res'.new_caption, now))
                       ELSE caption_cache' = caption_cache
            /\ res'.captions # <<>> =>
                  IF cache_key \in DOMAIN story_cache
                  THEN /\ ~Contains(res'.upstream, "generate_story_board")
                       /\ res'.final_prompt = story_cache[cache_key].prompt
                       /\ story_cache' = story_cache
                  ELSE /\ Contains(res'.upstream, "generate_story_board")
                       /\ IF stored(res'.new_prompt)
                          THEN story_cache' = InsertOrReplace(story_cache,
                                   cache_key, PromptRow(res'.new_prompt, now))
                          ELSE story_cache' = story_cache]_vars

\* ------------------------------------------------- claims under SpecRecord
\* C35: record_image_usage on a token id that is not in the store, or on a
\* token whose access window has elapsed (now >= access_valid_until),
\* returns False and changes nothing: the tokens in memory, the file and its
\* modification time are what they were before the call.
C35_RejectedRecordChangesNothing ==
    [][(/\ now' = now
        /\ \/ ret'.token_id \notin DOMAIN tokens
           \/ now >= tokens[ret'.token_id].access_valid_until)
       => /\ ret'.value = FALSE
          /\ tokens' = tokens
          /\ file' = file
          /\ file_mtime' = file_mtime]_vars

\* a call on T1 after its access window has been refused
C35_Witness ==
    /\ ret = [token_id |-> T1, value |-> FALSE, io |-> "none"]
    /\ now >= tokens[T1].access_valid_until

\* --------------------------------------- more claims under SpecConc
\* the fields of a token agree: usage_count is the number of generation
\* records, and every used fingerprint and every used style is the
\* fingerprint or the style of some record
Consistent(token) ==
    /\ token.usage_count = Len(token.generation_records)
    /\ \A i \in 1..Len(token.used_image_hashes) :
          \E r \in 1..Len(token.generation_records) :
             token.generation_records[r].image_hash = token.used_image_hashes[i]
    /\ \A i \in 1..Len(token.used_styles) :
          \E r \in 1..Len(token.generation_records) :
             token.generation_records[r].style = token.used_styles[i]

\* C36: T1 was created with usage_count = 0 and no generation records.
\* Whenever no record_image_usage call is under way, its usage_count is the
\* number of its generation records and each of its fingerprints and
\* styles appears in one of the records.
C36_CountMatchesRecords ==
    (\A t \in Threads : th[t].pc \notin {"rec2", "rec3", "rec4"})
       => Consistent(tokens[T1])

\* no entry of the list occurs twice
NoDuplicates(seq) ==
    \A i, j \in 1..Len(seq) : i # j => seq[i] # seq[j]

\* C37: whenever no record_image_usage call is under way, no token holds a
\* fingerprint twice in used_image_hashes or a style twice in used_styles,
\* in memory or in the file.
C37_NoDuplicates ==
    (\A t \in Threads : th[t].pc \notin {"rec2", "rec3", "rec4"})
       => /\ \A id \in DOMAIN tokens :
                /\ NoDuplicates(tokens[id].used_image_hashes)
                /\ NoDuplicates(tokens[id].used_styles)
          /\ \A id \in DOMAIN file.data :
                /\ NoDuplicates(file.data[id].used_image_hashes)
                /\ NoDuplicates(file.data[id].used_styles)

\* C38: a record_image_usage call on token T changes no other token: over
\* each of its steps every other token in memory keeps its fields, and
\* over its save every other token in the file is still there with the
\* fields it had in the file before.
C38_OtherTokensUntouched ==
    [][\A t \in Threads :
          (th[t].pc \in {"rec2", "rec3", "rec4"} /\ th'[t].pc # th[t].pc) =>
             /\ \A id \in DOMAIN tokens \ {th[t].token_id} :
                   id \in DOMAIN tokens' /\ tokens'[id] = tokens[id]
             /\ \A id \in DOMAIN file.data \ {th[t].token_id} :
                   id \in DOMAIN file'.data /\ file'.data[id] = file.data[id]]_vars

\* --------------------------------------------------- claims under SpecPage
\* the screen the page-load rules select at time t
ClaimedScreen(toks, t, token) ==
    IF token = <<>> \/ token[1] \notin DOMAIN toks THEN login_container
    ELSE IF t >= toks[token[1]].access_valid_until THEN expired_container
    ELSE main_container

\* C39: every page load shows exactly one of the login, main and expired
\* screens: the login screen for a missing or unknown token, the expired
\* screen for a known token whose access window has elapsed, the main
\* screen for a known token with valid access.
C39_ScreenSelection ==
    [][\A token \in PageTokens, elapsed \in Elapsed :
          (/\ res'.op = "load_interface"
           /\ now' = now + elapsed
           /\ load_interface(token, elapsed))
          => res'.screens = {ClaimedScreen(tokens', now', token)}]_vars

\* ------------------------------------------------ claims under SpecMigrate
\* C40: a migration from the JSON files changes no entry the cache already
\* holds: every key stored before the call is stored after it with the same
\* row, and a table that holds any row is left exactly as it was, whatever
\* the JSON files contain.
C40_MigrationKeepsEntries ==
    [][\A caption_json \in CaptionJsons, story_json \in StoryJsons :
          (/\ res'.op = "_migrate_from_json"
           /\ now' = now
           /\ _migrate_from_json(caption_json, story_json))
          => /\ \A k \in DOMAIN caption_cache :
                   k \in DOMAIN caption_cache' /\ caption_cache'[k] = caption_cache[k]
             /\ \A k \in DOMAIN story_cache :
                   k \in DOMAIN story_cache' /\ story_cache'[k] = story_cache[k]
             /\ DOMAIN caption_cache # {} => caption_cache' = caption_cache
             /\ DOMAIN story_cache # {} => story_cache' = story_cache]_vars

\* a migration whose caption file had data has run on a cache that held
\* captions, after the clock had moved on from the time they were stored
C40_Witness ==
    /\ res.op = "_migrate_from_json"
    /\ "caption_cache" \in res.skipped
    /\ \E k \in DOMAIN caption_cache : caption_cache[k].created_at < now

=============================================================================
